---- MODULE Spec2Model ----
(***************************************************************************)
(* Model of the schema resolution engine of xsd-visualizer:                *)
(*   - MultiFileXSDParser (utils/multi_file_xsd_parser.py): loading of a   *)
(*     root schema file and of every file it references through            *)
(*     import / include / redefine, and the merge of the components of     *)
(*     the loaded files by parse();                                        *)
(*   - LargeXSDToCSVConverter._build_inheritance_chain                     *)
(*     (src/xsd_to_csv/large_xsd_converter.py): the base-type walk.        *)
(***************************************************************************)
EXTENDS Integers, Sequences, FiniteSets, TLC

VARIABLES
    \* ---- the file set on disk and the constructor argument (inputs)
    schema_files,        \* physical file -> declarations in document order
    main_path,           \* Path(self.xsd_path), as given by the caller
    definitions,         \* physical file -> named components in document order
    \* ---- MultiFileXSDParser fields
    processed_files,     \* Set[Path]
    all_roots,           \* Dict[str, _Element], in insertion order
    schema_references,   \* List[SchemaReference]
    imported_namespaces, \* Dict[namespace, str(path)]
    file_dependencies,   \* Dict[str(path), List[str(path)]]
    parser,              \* XSDParser fields: root, the name-keyed tables,
                         \* elements, dependencies, stats
    \* ---- locals of _process_schema_references and control position
    processed_count,
    current_refs,
    ref_idx,
    pc,
    load_log,            \* one entry per "Loading schema file" (open + parse)
    structure,           \* value returned by parse() / get_structure()
    \* ---- _build_inheritance_chain: argument, locals, control position
    complex_types,       \* schema_data['complex_types']: name -> base_type
    type_name,
    chain,
    current_type,
    chain_pc,
    \* ---- XSDRelationshipAnalyzer: argument, fields, control position
    xsd_files,              \* the paths given to the analyzer
    parsers,                \* Dict[str(path), MultiFileXSDParser]
    structures,             \* Dict[str(path), structure]
    component_dependencies, \* List[ComponentDependency]
    analyze_idx,
    analyzer_pc,
    \* ---- SelectiveXSDParser: fields, loop position, returned structure
    selection_criteria,     \* List[SelectionCriteria]
    selected_components,    \* Dict[key, SelectedComponent], in insertion order
    criteria_idx,
    combined,
    select_pc

vars == <<schema_files, main_path, definitions, processed_files, all_roots,
          schema_references, imported_namespaces, file_dependencies, parser,
          processed_count, current_refs, ref_idx, pc, load_log, structure,
          complex_types, type_name, chain, current_type, chain_pc,
          xsd_files, parsers, structures, component_dependencies, analyze_idx,
          analyzer_pc, selection_criteria, selected_components, criteria_idx,
          combined, select_pc>>

resolver_vars == <<schema_files, main_path, definitions, processed_files,
                   all_roots, schema_references, imported_namespaces,
                   file_dependencies, parser, processed_count, current_refs, ref_idx, pc, load_log,
                   structure>>

chain_vars == <<complex_types, type_name, chain, current_type, chain_pc>>

analyzer_vars == <<xsd_files, parsers, structures, component_dependencies,
                   analyze_idx, analyzer_pc>>

selective_vars == <<selection_criteria, selected_components, criteria_idx,
                    combined, select_pc>>

tool_vars == <<analyzer_vars, selective_vars>>

----------------------------------------------------------------------------
(* Bounds of the explored inputs.                                          *)

MaxFiles == 4      \* well-formed schema files on disk (file 1 is the root)
MaxTypes == 12     \* complex types in a type table
MaxWorklist == 12  \* longest reference list the exploration follows
MaxChainLen == 14  \* longest inheritance chain the exploration follows
MaxParticles == 2  \* element declarations in the content of a complex type
MaxDepth == 3      \* nesting depth of element declarations
MaxCriteria == 2   \* selection criteria handed to the selective parser
MaxFacets == 2     \* children of the restriction of a simple type
MaxAttributes == 2 \* attribute elements of a complex type

----------------------------------------------------------------------------
(* Files, paths, locations.                                                *)

Files == 1..MaxFiles
MainFile == 1
NoFile == 0
UnreadableFile == MaxFiles + 1   \* exists, open()/read() raises
GarbageFile == MaxFiles + 2      \* exists, lxml recovers nothing (root None)
DiskFiles == Files \cup {UnreadableFile, GarbageFile}

\* A Path value.  Two Path objects are equal when their spellings are equal;
\* resolved = TRUE is the spelling Path.resolve() returns, resolved = FALSE a
\* spelling of the same file that resolve() would change (relative, "..",
\* symlink).
NoPath == [file |-> NoFile, resolved |-> FALSE]
ResolvedPath(f) == [file |-> f, resolved |-> TRUE]
GivenPath(f) == [file |-> f, resolved |-> FALSE]

RemoteSchemes == {"http://", "https://", "ftp://"}
LocalScheme == ""
\* A schemaLocation string: its scheme prefix and the file on disk that the
\* rest of the string denotes from the declaring file's directory (NoFile
\* when nothing exists there).  NoLocation is an absent attribute.
NoLocation == [scheme |-> "absent", target |-> NoFile]
LocalLocation(f) == [scheme |-> LocalScheme, target |-> f]
RemoteLocation(s) == [scheme |-> s, target |-> NoFile]

NoNamespace == 0

\* What opening and parsing a path yields: "unreadable" when open()/read()
\* raises (no such file, a directory, undecodable bytes), "garbage" when
\* lxml recovers no root element, "schema" otherwise.
Content(f) ==
    IF f = UnreadableFile \/ f \notin DiskFiles THEN "unreadable"
    ELSE IF f = GarbageFile THEN "garbage"
    ELSE "schema"

----------------------------------------------------------------------------
(* Sequence helpers.                                                       *)

Range(s) == {s[i] : i \in 1..Len(s)}

\* s with e inserted after its first k elements
InsertAt(s, k, e) == SubSeq(s, 1, k) \o <<e>> \o SubSeq(s, k + 1, Len(s))

RECURSIVE SortedSeq(_)
SortedSeq(S) ==
    IF S = {} THEN <<>>
    ELSE LET m == CHOOSE x \in S : \A y \in S : x <= y
         IN  <<m>> \o SortedSeq(S \ {m})

\* Python dict assignment d[key] = value on an insertion-ordered dict kept as
\* a sequence of [key, root] entries.
DictKeys(d) == {d[i].key : i \in 1..Len(d)}
DictSet(d, k, v) ==
    IF k \in DictKeys(d)
    THEN [i \in 1..Len(d) |-> IF d[i].key = k THEN [key |-> k, root |-> v] ELSE d[i]]
    ELSE Append(d, [key |-> k, root |-> v])

----------------------------------------------------------------------------
(* MultiFileXSDParser._resolve_schema_location                             *)

\* Files 2 and 4 lie in a subdirectory of the directory that holds the other
\* files.  Files 3 and 4 have the same file name, SiblingName: a location
\* that is this bare name denotes file 3 from the one directory and file 4
\* from the other.
SubDirFiles == {2, 4}
SiblingName == MaxFiles + 3

\* the directory of the root file, whatever file declares the reference
BaseDir(path) == "root"

\* Path.parent
Parent(path) == IF path.file \in SubDirFiles THEN "sub" ELSE "root"

\* the file that `current_file.parent / schema_location` denotes
Joined(dir, schema_location) ==
    IF schema_location.target = SiblingName
    THEN IF dir = "sub" THEN 4 ELSE 3
    ELSE schema_location.target

\* ResolveSchemaLocation without the existence check
ResolveUnchecked(schema_location, current_file) ==
    IF schema_location.scheme \in RemoteSchemes
    THEN NoPath
    ELSE ResolvedPath(Joined(Parent(current_file), schema_location))

ResolveSchemaLocation(schema_location, current_file) ==
    IF schema_location.scheme \in RemoteSchemes
    THEN NoPath                                   \* remote: skipped
    ELSE LET resolved == Joined(Parent(current_file), schema_location)
         IN  IF resolved = NoFile
             THEN NoPath                          \* not resolved.exists()
             ELSE ResolvedPath(resolved)

----------------------------------------------------------------------------
(* MultiFileXSDParser._extract_schema_references                           *)

\* the SchemaReference built for one import/include/redefine element
MakeReference(d, current_file) ==
    [reference_type  |-> d.reference_type,
     namespace       |-> IF d.reference_type = "import" THEN d.namespace
                         ELSE NoNamespace,
     schema_location |-> d.schema_location,
     resolved_path   |-> ResolveSchemaLocation(d.schema_location, current_file)]

\* `references`: imports, then includes, then redefines, each in document
\* order, keeping only the elements that carry a schemaLocation
ExtractedReferences(decls, current_file) ==
    LET OfKind(k) == SelectSeq(decls, LAMBDA d : d.reference_type = k
                                              /\ d.schema_location # NoLocation)
        kept == OfKind("import") \o OfKind("include") \o OfKind("redefine")
    IN  [i \in 1..Len(kept) |-> MakeReference(kept[i], current_file)]

\* TracksNamespace without the test of the resolved path
TracksAnyNamespace(ref) ==
    /\ ref.reference_type = "import"
    /\ ref.namespace # NoNamespace

\* the guard of `self.imported_namespaces[ref.namespace] = str(ref.resolved_path)`
TracksNamespace(ref) ==
    /\ ref.reference_type = "import"
    /\ ref.namespace # NoNamespace
    /\ ref.resolved_path # NoPath

RECURSIVE TrackNamespaces(_, _)
TrackNamespaces(map, refs) ==
    IF refs = <<>> THEN map
    ELSE LET r == Head(refs)
             next == IF TracksNamespace(r)
                     THEN (r.namespace :> r.resolved_path) @@ map
                     ELSE map
         IN  TrackNamespaces(next, Tail(refs))

\* the guard of `self.file_dependencies[file_key].append(str(ref.resolved_path))`
IsDependency(ref) == ref.resolved_path # NoPath

TrackDependencies(deps, current_file, refs) ==
    LET old == IF current_file \in DOMAIN deps THEN deps[current_file] ELSE <<>>
        res == SelectSeq(refs, IsDependency)
    IN  (current_file :> old \o [i \in 1..Len(res) |-> res[i].resolved_path]) @@ deps

----------------------------------------------------------------------------
(* MultiFileXSDParser._load_schema_file                                    *)

\* The root element `etree.fromstring` returns: a fresh object at every load
\* (elements compare by identity), None when nothing is recovered.
NoRoot == [file |-> NoFile, load |-> 0]
RootElement(f, k) == [file |-> f, load |-> k]

\* the early return `if file_path in self.processed_files`
AlreadyLoaded(file_path, processed) == file_path \in processed

\* MarkProcessed that forgets the file
MarkProcessedNever(processed, file_path) == processed

\* `self.processed_files.add(file_path)`
MarkProcessed(processed, file_path) == processed \cup {file_path}

\* The parser state after _load_schema_file(file_path, is_main), and whether
\* the call raised.
LoadSchemaFile(file_path, is_main) ==
    LET here == [raised              |-> FALSE,
                 processed_files     |-> processed_files,
                 all_roots           |-> all_roots,
                 schema_references   |-> schema_references,
                 imported_namespaces |-> imported_namespaces,
                 file_dependencies   |-> file_dependencies,
                 root                |-> parser.root,
                 target_namespace    |-> parser.target_namespace,
                 load_log            |-> load_log]
        kind == Content(file_path.file)
        root == RootElement(file_path.file, Len(load_log) + 1)
        refs == ExtractedReferences(schema_files[file_path.file], file_path)
    IN  IF AlreadyLoaded(file_path, processed_files) THEN here
        ELSE IF kind = "unreadable"
        THEN \* open()/read() raises: nothing stored, the exception is re-raised
             [here EXCEPT !.raised = TRUE,
                          !.load_log = Append(load_log, file_path)]
        ELSE IF kind = "garbage"
        THEN \* fromstring() returns None: stored, then root.nsmap raises
             [here EXCEPT !.raised = TRUE,
                          !.load_log = Append(load_log, file_path),
                          !.all_roots = DictSet(all_roots, file_path, NoRoot),
                          !.processed_files = MarkProcessed(processed_files, file_path)]
        ELSE [raised              |-> FALSE,
              processed_files     |-> MarkProcessed(processed_files, file_path),
              all_roots           |-> DictSet(all_roots, file_path, root),
              schema_references   |-> schema_references \o refs,
              imported_namespaces |-> TrackNamespaces(imported_namespaces, refs),
              file_dependencies   |-> TrackDependencies(file_dependencies, file_path, refs),
              root                |-> IF is_main THEN root ELSE parser.root,
              target_namespace    |-> IF is_main
                                      THEN definitions[file_path.file].target_namespace
                                      ELSE parser.target_namespace,
              load_log            |-> Append(load_log, file_path)]

\* assignment of the fields _load_schema_file writes
Store(r) ==
    /\ processed_files' = r.processed_files
    /\ all_roots' = r.all_roots
    /\ schema_references' = r.schema_references
    /\ imported_namespaces' = r.imported_namespaces
    /\ file_dependencies' = r.file_dependencies
    /\ parser' = [parser EXCEPT !.root = r.root,
                                !.target_namespace = r.target_namespace]
    /\ load_log' = r.load_log

----------------------------------------------------------------------------
(* The named components of a schema file and their extraction.  A          *)
(* definition is identified by its name and by the file whose markup it    *)
(* is; an element declaration also carries its type attribute and the      *)
(* element declarations of its inline complex type.                        *)

\* A type reference string: optional prefix and local name.  Local names
\* 1..MaxTypes may be keys of the type table, BuiltinName never is, and the
\* empty string is NoBase.
NoName == 0
BuiltinName == MaxTypes + 1
NoBase == [prefix |-> "", local |-> NoName]
TypeRef(p, n) == [prefix |-> p, local |-> n]

\* an absent type or base attribute (None)
NoType == [prefix |-> "", local |-> NoName]

\* A simple type definition; a complex type definition with the wrapper
\* (complexContent, simpleContent or none) of its content, the derivation
\* inside the wrapper with its base attribute, and the element declarations
\* of its sequence/choice/all; an element declaration.
\* a simpleType element: its name, the base attribute of its restriction
\* and the children of the restriction, each a tag and a value attribute
RestrictedType(n, f, b, c) == [name |-> n, file |-> f, base |-> b, children |-> c]
SimpleTypeNode(n, f, b) == RestrictedType(n, f, b, <<>>)
TypeNode(n, f) == SimpleTypeNode(n, f, NoType)
\* An attribute element: a declaration has a name, a reference a ref; type,
\* use, default and fixed are absent (NoType, "", NoValue) or given.
NoValue == 0
AttributeNode(n, r, t, u, d) ==
    [name |-> n, ref |-> r, type |-> t, use |-> u, default |-> d, fixed |-> NoValue]

\* A complexType element with its content (the items of its sequence, its
\* attribute elements, the ref attributes of its attributeGroup elements);
\* the same with no attribute; an element with an inline complexType of that
\* content; the same with no attribute.  An item of a sequence is an element
\* or a container (a choice) nested in it, with element items of its own.
ComplexTypeWith(n, f, w, d, b, c, a, g) ==
    [name |-> n, file |-> f, wrapper |-> w, derivation |-> d, base |-> b,
     elements |-> c, attributes |-> a, groups |-> g]
ComplexTypeNode(n, f, w, d, b, c) == ComplexTypeWith(n, f, w, d, b, c, <<>>, <<>>)
ElementWith(n, f, t, c, a, g) ==
    [name |-> n, file |-> f, type |-> t, children |-> c, attributes |-> a,
     groups |-> g]
ElementNode(n, f, t, c) == ElementWith(n, f, t, c, <<>>, <<>>)
ContainerNode(c) == [container |-> "choice", items |-> c]
IsContainer(item) == "container" \in DOMAIN item
NoDefinitions ==
    [target_namespace |-> NoNamespace,
     simple_types |-> <<>>, complex_types |-> <<>>, elements |-> <<>>,
     attributes |-> <<>>, attribute_groups |-> <<>>]

\* the three xpath queries of the _parse_*_from_file methods and the one of
\* _parse_root_elements, on the root element of a loaded file
SimpleTypeElements(root) == definitions[root.file].simple_types
ComplexTypeElements(root) == definitions[root.file].complex_types
GlobalElementElements(root) == definitions[root.file].elements
RootElementElements(root) == definitions[root.file].elements

\* the facets _extract_simple_type looks for
ExtractedFacets ==
    {"minLength", "maxLength", "pattern", "minInclusive", "maxInclusive"}

\* `[e.get('value') for e in enum_elements if e.get('value')]`
Enumerations(children) ==
    LET kept == SelectSeq(children, LAMBDA c : c.tag = "enumeration"
                                                /\ c.value # "")
    IN  [i \in 1..Len(kept) |-> kept[i].value]

\* restriction_elem.find(f'./xs:{restriction}'): the first child of that tag
Restrictions(children) ==
    LET Found(tag) == SelectSeq(children, LAMBDA c : c.tag = tag)
    IN  [tag \in {t \in ExtractedFacets : Found(t) # <<>>} |->
            Head(Found(tag)).value]

\* _extract_simple_type: the name, the base of the restriction, its
\* enumerations and its facets
ExtractSimpleType(elem) ==
    [name         |-> elem.name,
     file         |-> elem.file,
     base_type    |-> elem.base,
     enumerations |-> Enumerations(elem.children),
     restrictions |-> Restrictions(elem.children)]

\* the defaults 'xsd:string' and 'String' of a type, and the absent use
XsdString == TypeRef("xsd", BuiltinName)
PlaceholderType == TypeRef("", BuiltinName)
NoUse == ""

\* the dict that _parse_global_attributes and the first branch of
\* _extract_attribute_info build for an attribute element with a name
DeclaredAttribute(attr) ==
    [name    |-> attr.name,
     type    |-> IF attr.type = NoType THEN XsdString ELSE attr.type,
     use     |-> IF attr.use = NoUse THEN "optional" ELSE attr.use,
     default |-> attr.default,
     fixed   |-> attr.fixed]

\* no dict (None)
NoAttribute == [name |-> NoName]

\* _extract_attribute_info; tables is the parser, with its global_attributes
ExtractAttributeInfo(tables, attr) ==
    IF attr.name # NoName THEN DeclaredAttribute(attr)
    ELSE IF attr.ref # NoType
         THEN IF attr.ref.local \in DOMAIN tables.global_attributes
              THEN [tables.global_attributes[attr.ref.local] EXCEPT
                       !.use = IF attr.use # NoUse THEN attr.use ELSE @]
              ELSE [name    |-> attr.ref.local,
                    type    |-> PlaceholderType,
                    use     |-> IF attr.use = NoUse THEN "optional" ELSE attr.use,
                    default |-> attr.default]
         ELSE NoAttribute

\* the test of `attr_key not in processed_attributes` that every key passes
IsAnyKey(processed, key) == TRUE

\* `attr_key not in processed_attributes`
IsNewKey(processed, key) == key \notin processed

\* the loop over `./{prefix}:attribute` of _extract_complex_type_children
RECURSIVE DirectAttributes(_, _, _)
DirectAttributes(acc, tables, attrs) ==
    IF attrs = <<>> THEN acc
    ELSE LET attr == Head(attrs)
             attr_key == <<attr.name, attr.ref, attr.type>>
             attr_info == ExtractAttributeInfo(tables, attr)
             next == IF IsNewKey(acc.processed_attributes, attr_key)
                     THEN [acc EXCEPT
                              !.processed_attributes = @ \cup {attr_key},
                              !.attributes = IF attr_info # NoAttribute
                                             THEN Append(@, attr_info) ELSE @]
                     ELSE acc
         IN  DirectAttributes(next, tables, Tail(attrs))

\* the loop over `./{prefix}:attributeGroup[@ref]`
RECURSIVE GroupAttributes(_, _, _)
GroupAttributes(acc, tables, refs) ==
    IF refs = <<>> THEN acc
    ELSE LET ref_name == Head(refs)
             next == IF ref_name \notin acc.processed_attr_groups
                     THEN [acc EXCEPT
                              !.processed_attr_groups = @ \cup {ref_name},
                              !.attributes =
                                  IF ref_name.local \in DOMAIN tables.attribute_groups
                                  THEN @ \o tables.attribute_groups[ref_name.local]
                                                .attributes
                                  ELSE @]
                     ELSE acc
         IN  GroupAttributes(next, tables, Tail(refs))

\* Both tag prefixes are bound to the one schema namespace: each of the two
\* queries returns every attribute and attributeGroup child.
Prefixes == <<"xs", "xsd">>

\* the second half of _extract_complex_type_children: the attribute list
RECURSIVE AttributesUnder(_, _, _, _)
AttributesUnder(acc, tables, elem, prefixes) ==
    IF prefixes = <<>> THEN acc.attributes
    ELSE AttributesUnder(
             GroupAttributes(DirectAttributes(acc, tables, elem.attributes),
                             tables, elem.groups),
             tables, elem, Tail(prefixes))

ExtractComplexTypeAttributes(tables, elem) ==
    AttributesUnder([attributes |-> <<>>, processed_attributes |-> {},
                     processed_attr_groups |-> {}],
                    tables, elem, Prefixes)

\* `.//xs:attribute` on an element or a container: the attribute elements
\* below it in document order, those of its items before its own
RECURSIVE DescendantAttributes(_)
DescendantAttributes(item) ==
    LET items == IF IsContainer(item) THEN item.items ELSE item.children
        RECURSIVE Below(_)
        Below(rest) == IF rest = <<>> THEN <<>>
                       ELSE DescendantAttributes(Head(rest)) \o Below(Tail(rest))
    IN  Below(items) \o (IF IsContainer(item) THEN <<>> ELSE item.attributes)

\* the dict _extract_element builds for each of them
RawAttribute(attr) ==
    [name    |-> attr.name,
     type    |-> attr.type,
     use     |-> IF attr.use = NoUse THEN "optional" ELSE attr.use,
     default |-> attr.default]

\* `container_elem.xpath('./xs:element')`: the items that are elements
ChildElements(items) == SelectSeq(items, LAMBDA item : ~IsContainer(item))

\* _extract_element: the attributes of every attribute element below it,
\* then the children and the attribute list of its inline complexType
RECURSIVE ExtractElement(_, _)
ExtractElement(tables, elem) ==
    LET raw == DescendantAttributes(elem)
        found == ChildElements(elem.children)
    IN  [name       |-> elem.name,
         file       |-> elem.file,
         type       |-> elem.type,
         attributes |-> [i \in 1..Len(raw) |-> RawAttribute(raw[i])]
                            \o ExtractComplexTypeAttributes(tables, elem),
         children   |-> [i \in 1..Len(found) |->
                            ExtractElement(tables, found[i])]]

\* _extract_complex_type_children for a named type: the elements of the
\* sequence/choice/all that is a direct child of the complexType element
ExtractComplexTypeChildren(tables, elem) ==
    IF elem.wrapper = "none"
    THEN LET found == ChildElements(elem.elements)
         IN  [i \in 1..Len(found) |-> ExtractElement(tables, found[i])]
    ELSE <<>>

\* _extract_complex_type and the dataclass defaults of the fields it does
\* not assign
ExtractComplexType(tables, elem) ==
    [name           |-> elem.name,
     file           |-> elem.file,
     elements       |-> ExtractComplexTypeChildren(tables, elem),
     attributes     |-> IF elem.wrapper = "none"
                        THEN ExtractComplexTypeAttributes(tables, elem)
                        ELSE <<>>,
     base_type      |-> NoType,
     is_extension   |-> FALSE,
     is_restriction |-> FALSE]

\* what the calls of _extract_element that build an element add to
\* stats['total_attributes']
RECURSIVE CountAttributes(_)
CountAttributes(elements) ==
    IF elements = <<>> THEN 0
    ELSE Len(Head(elements).attributes) + CountAttributes(Head(elements).children)
             + CountAttributes(Tail(elements))

\* the largest depth argument of those calls: the children of an element
\* extracted at depth d are extracted at depth d + 2
RECURSIVE DeepestCall(_, _)
DeepestCall(elements, depth) ==
    IF elements = <<>> THEN 0
    ELSE LET below == DeepestCall(Head(elements).children, depth + 2)
             rest == DeepestCall(Tail(elements), depth)
             here == IF below > depth THEN below ELSE depth
         IN  IF rest > here THEN rest ELSE here

\* the state of a parser before _load_schema
NewParser ==
    [root            |-> NoRoot,
     target_namespace |-> NoNamespace,
     simple_types    |-> <<>>,
     complex_types   |-> <<>>,
     global_elements |-> <<>>,
     elements        |-> <<>>,
     global_attributes |-> <<>>,
     attribute_groups |-> <<>>,
     dependencies    |-> <<>>,
     stats           |-> [total_elements      |-> 0,
                          total_complex_types |-> 0,
                          total_simple_types  |-> 0,
                          max_depth           |-> 0,
                          total_attributes    |-> 0]]

----------------------------------------------------------------------------
(* MultiFileXSDParser._parse_all_files                                     *)

\* Assign keeping the entry a name already has
AssignFirst(table, entity) ==
    IF entity.name \in DOMAIN table THEN table
    ELSE (entity.name :> entity) @@ table

\* `self.simple_types[simple_type.name] = simple_type`, and the same
\* statement for complex types and global elements
Assign(table, entity) == (entity.name :> entity) @@ table

RECURSIVE AssignAll(_, _)
AssignAll(table, entities) ==
    IF entities = <<>> THEN table
    ELSE AssignAll(Assign(table, Head(entities)), Tail(entities))

ParseSimpleTypesFromFile(table, root) ==
    IF root = NoRoot THEN table
    ELSE LET found == SimpleTypeElements(root)
         IN  AssignAll(table, [i \in 1..Len(found) |-> ExtractSimpleType(found[i])])

\* the complex types, the global elements and the root elements extracted
\* from a file
ExtractedComplexTypes(tables, root) ==
    IF root = NoRoot THEN <<>>
    ELSE LET found == ComplexTypeElements(root)
         IN  [i \in 1..Len(found) |-> ExtractComplexType(tables, found[i])]

ExtractedGlobalElements(tables, root) ==
    IF root = NoRoot THEN <<>>
    ELSE LET found == GlobalElementElements(root)
         IN  [i \in 1..Len(found) |-> ExtractElement(tables, found[i])]

ExtractedRootElements(tables, root) ==
    IF root = NoRoot THEN <<>>
    ELSE LET found == RootElementElements(root)
         IN  [i \in 1..Len(found) |-> ExtractElement(tables, found[i])]

ParseComplexTypesFromFile(p, root) ==
    AssignAll(p.complex_types, ExtractedComplexTypes(p, root))

ParseGlobalElementsFromFile(p, root) ==
    AssignAll(p.global_elements, ExtractedGlobalElements(p, root))

\* XSDParser._parse_root_elements on self.root = root
ParseRootElements(p, root) == p.elements \o ExtractedRootElements(p, root)

\* the statistics that the calls of _extract_element update while the
\* elements of a list are extracted at a depth
CountCalls(stats, elements, depth) ==
    [stats EXCEPT
        !.total_attributes = @ + CountAttributes(elements),
        !.max_depth = IF DeepestCall(elements, depth) > @
                      THEN DeepestCall(elements, depth) ELSE @]

RECURSIVE ElementsOfTypes(_)
ElementsOfTypes(types) ==
    IF types = <<>> THEN <<>>
    ELSE Head(types).elements \o ElementsOfTypes(Tail(types))

\* IsOriginalRoot that every root passes
IsAnyRoot(root, original_root) == TRUE

\* `if root == original_root`: lxml elements compare by identity
IsOriginalRoot(root, original_root) == root = original_root

\* one iteration of `for file_path, root in self.all_roots.items()`;
\* self.root is restored at its end
ParseOneFile(p, root) ==
    LET roots == IF IsOriginalRoot(root, p.root)
                 THEN ExtractedRootElements(p, root) ELSE <<>>
        s1 == CountCalls(p.stats, ElementsOfTypes(ExtractedComplexTypes(p, root)), 1)
        s2 == CountCalls(s1, ExtractedGlobalElements(p, root), 0)
    IN  [p EXCEPT !.simple_types = ParseSimpleTypesFromFile(@, root),
                  !.complex_types = ParseComplexTypesFromFile(p, root),
                  !.global_elements = ParseGlobalElementsFromFile(p, root),
                  !.elements = IF IsOriginalRoot(root, p.root)
                               THEN ParseRootElements(p, root)
                               ELSE @,
                  !.stats = CountCalls(s2, roots, 0)]

RECURSIVE ParseAllFiles(_, _)
ParseAllFiles(p, roots) ==
    IF roots = <<>> THEN p
    ELSE ParseAllFiles(ParseOneFile(p, Head(roots).root), Tail(roots))

----------------------------------------------------------------------------
(* XSDParser._calculate_dependencies and                                   *)
(* MultiFileXSDParser._calculate_cross_file_dependencies.  A key of the    *)
(* dependency map is an element name or "file:" followed by a file name.   *)

ElementKey(n) == [prefix |-> "", name |-> n]
\* f"file:{Path(file_path).name}": the directory part is dropped
FileKey(path) == [prefix |-> "file:", name |-> path.file]

\* the types of the element and of its direct children
DirectTypes(element) ==
    ({element.type} \cup {element.children[i].type :
                             i \in 1..Len(element.children)}) \ {NoType}

RECURSIVE CollectElementDependencies(_, _)
RECURSIVE CollectAll(_, _)
CollectElementDependencies(deps, element) ==
    LET below == CollectAll(deps, element.children)
    IN  IF DirectTypes(element) # {}
        THEN (ElementKey(element.name) :> DirectTypes(element)) @@ below
        ELSE below

\* _collect_element_dependencies on each element of a list, in order
CollectAll(deps, elements) ==
    IF elements = <<>> THEN deps
    ELSE CollectAll(CollectElementDependencies(deps, Head(elements)),
                    Tail(elements))

\* `for element in self.elements: self._collect_element_dependencies(element)`
CalculateDependencies(p) ==
    [p EXCEPT !.dependencies = CollectAll(@, p.elements)]

\* the file-level entries: the paths that share a file name spell one file
\* and carry equal lists
FileLevelDependencies ==
    LET keys == {FileKey(path) : path \in DOMAIN file_dependencies}
        ListOf(k) == file_dependencies[CHOOSE path \in DOMAIN file_dependencies :
                                           FileKey(path) = k]
    IN  [k \in keys |-> {FileKey(ListOf(k)[i]) : i \in 1..Len(ListOf(k))}]

CalculateCrossFileDependencies(p) ==
    LET q == CalculateDependencies(p)
    IN  [q EXCEPT !.dependencies = FileLevelDependencies @@ @]

----------------------------------------------------------------------------
(* XSDParser._calculate_statistics                                         *)

RECURSIVE CountNestedElements(_)
RECURSIVE CountAllNested(_)
CountNestedElements(element) == 1 + CountAllNested(element.children)

CountAllNested(elements) ==
    IF elements = <<>> THEN 0
    ELSE CountNestedElements(Head(elements)) + CountAllNested(Tail(elements))

CalculateStatistics(p) ==
    [p EXCEPT !.stats =
        [@ EXCEPT
            !.total_elements      = Len(p.elements)
                                        + Cardinality(DOMAIN p.global_elements)
                                        + CountAllNested(p.elements),
            !.total_complex_types = Cardinality(DOMAIN p.complex_types),
            !.total_simple_types  = Cardinality(DOMAIN p.simple_types)]]

----------------------------------------------------------------------------
(* MultiFileXSDParser.get_structure on parser fields p.  The dependency    *)
(* sets are listed in the order a Python set iterates; they are kept as    *)
(* the sets.                                                               *)

GetStructure(p) ==
    [target_namespace  |-> p.target_namespace,
     total_files       |-> Len(all_roots),
     processed_files   |-> processed_files,
     schema_references |-> schema_references,
     file_dependencies |-> file_dependencies,
     imported_namespaces |-> imported_namespaces,
     elements          |-> p.elements,
     global_elements   |-> p.global_elements,
     complex_types     |-> p.complex_types,
     simple_types      |-> p.simple_types,
     global_attributes |-> p.global_attributes,
     attribute_groups  |-> p.attribute_groups,
     dependencies      |-> p.dependencies,
     statistics        |-> p.stats]

NoStructure ==
    [target_namespace  |-> NoNamespace,
     total_files       |-> 0,
     processed_files   |-> {},
     schema_references |-> <<>>,
     file_dependencies |-> <<>>,
     imported_namespaces |-> <<>>,
     elements          |-> <<>>,
     global_elements   |-> <<>>,
     complex_types     |-> <<>>,
     simple_types      |-> <<>>,
     global_attributes |-> <<>>,
     attribute_groups  |-> <<>>,
     dependencies      |-> <<>>,
     statistics        |-> NewParser.stats]

----------------------------------------------------------------------------
(* XSDParser.parse: the steps of the single-file parser, in their order.   *)

RECURSIVE AttributesBelow(_)
AttributesBelow(items) ==
    IF items = <<>> THEN <<>>
    ELSE DescendantAttributes(Head(items)) \o AttributesBelow(Tail(items))

RECURSIVE Concatenated(_)
Concatenated(lists) ==
    IF lists = <<>> THEN <<>>
    ELSE Head(lists) \o Concatenated(Tail(lists))

\* `.//{prefix}:attribute[@name]`: the named attribute elements at any depth,
\* in the order of a file that lists its attributes, its attribute groups,
\* its complex types and its elements
NamedAttributeElements(root) ==
    LET ds == definitions[root.file]
        gs == ds.attribute_groups
        ts == ds.complex_types
        all == ds.attributes
                   \o Concatenated([i \in 1..Len(gs) |-> gs[i].attributes])
                   \o Concatenated([i \in 1..Len(ts) |->
                          AttributesBelow(ts[i].elements) \o ts[i].attributes])
                   \o AttributesBelow(ds.elements)
    IN  SelectSeq(all, LAMBDA a : a.name # NoName)

\* _parse_global_attributes, under one prefix and under the other
ParseGlobalAttributes(p, root) ==
    LET found == NamedAttributeElements(root)
        dicts == [i \in 1..Len(found) |-> DeclaredAttribute(found[i])]
    IN  [p EXCEPT !.global_attributes = AssignAll(AssignAll(@, dicts), dicts)]

\* the entry of one attributeGroup element
ExtractAttributeGroup(tables, group) ==
    LET infos == [i \in 1..Len(group.attributes) |->
                     ExtractAttributeInfo(tables, group.attributes[i])]
    IN  [name       |-> group.name,
         attributes |-> SelectSeq(infos, LAMBDA info : info # NoAttribute)]

\* _parse_attribute_groups, under one prefix and under the other
ParseAttributeGroups(p, root) ==
    LET found == definitions[root.file].attribute_groups
        groups == [i \in 1..Len(found) |-> ExtractAttributeGroup(p, found[i])]
    IN  [p EXCEPT !.attribute_groups = AssignAll(AssignAll(@, groups), groups)]

\* XSDParser.get_structure
XsdStructure(p) ==
    [metadata          |-> [target_namespace |-> p.target_namespace,
                            statistics       |-> p.stats],
     elements          |-> p.elements,
     global_elements   |-> p.global_elements,
     complex_types     |-> p.complex_types,
     simple_types      |-> p.simple_types,
     global_attributes |-> p.global_attributes,
     attribute_groups  |-> p.attribute_groups,
     dependencies      |-> p.dependencies]

\* the six _parse_* steps of XSDParser.parse on self.root
ParseSteps(p) ==
    LET p1 == [p EXCEPT !.simple_types = ParseSimpleTypesFromFile(@, p.root)]
        p2 == ParseGlobalAttributes(p1, p.root)
        p3 == ParseAttributeGroups(p2, p.root)
        p4 == [p3 EXCEPT
                  !.complex_types = ParseComplexTypesFromFile(p3, p.root),
                  !.stats = CountCalls(@,
                                ElementsOfTypes(ExtractedComplexTypes(p3, p.root)),
                                1)]
        p5 == [p4 EXCEPT
                  !.global_elements = ParseGlobalElementsFromFile(p4, p.root),
                  !.stats = CountCalls(@, ExtractedGlobalElements(p4, p.root), 0)]
    IN  [p5 EXCEPT
            !.elements = ParseRootElements(p5, p.root),
            !.stats = CountCalls(@, ExtractedRootElements(p5, p.root), 0)]

----------------------------------------------------------------------------
(* Actions of the resolver.                                                *)

\* __init__ -> _load_schema: load the main file (lines 50-55)
LoadMain ==
    /\ pc = "construct"
    /\ LET r == LoadSchemaFile(main_path, TRUE)
       IN  /\ Store(r)
           /\ pc' = IF r.raised THEN "raised" ELSE "while"
    /\ processed_count' = 0
    /\ UNCHANGED <<schema_files, main_path, definitions, current_refs, ref_idx,
                   structure>>
    /\ UNCHANGED <<chain_vars, tool_vars>>

\* MoreToProcess as a single pass over the root file's references
MoreToProcessOnce(count, refs) == count = 0 /\ count < Len(refs)

\* `while processed_count < len(self.schema_references)`
MoreToProcess(count, refs) == count < Len(refs)

\* _process_schema_references: the while test and the head of its body
WhileTest ==
    /\ pc = "while"
    /\ IF MoreToProcess(processed_count, schema_references)
       THEN /\ current_refs' = SubSeq(schema_references, processed_count + 1,
                                      Len(schema_references))
            /\ processed_count' = Len(schema_references)
            /\ ref_idx' = 1
            /\ pc' = "for"
       ELSE /\ pc' = "loaded"
            /\ UNCHANGED <<current_refs, processed_count, ref_idx>>
    /\ UNCHANGED <<schema_files, main_path, definitions, processed_files,
                   all_roots, schema_references, imported_namespaces,
                   file_dependencies, parser, load_log, structure>>
    /\ UNCHANGED <<chain_vars, tool_vars>>

\* the test of `if ref.resolved_path and ref.resolved_path not in processed_files`
NeedsLoad(ref, processed) ==
    /\ ref.resolved_path # NoPath
    /\ ref.resolved_path \notin processed

\* one iteration of `for ref in current_refs`
ForRef ==
    /\ pc = "for"
    /\ ref_idx <= Len(current_refs)
    /\ LET ref == current_refs[ref_idx]
           r == LoadSchemaFile(ref.resolved_path, FALSE)
       IN  IF NeedsLoad(ref, processed_files)
           THEN /\ Len(r.schema_references) <= MaxWorklist  \* exploration bound
                /\ Store(r)
                /\ pc' = IF r.raised THEN "raised" ELSE "for"
           ELSE /\ UNCHANGED <<processed_files, all_roots, schema_references,
                               imported_namespaces, file_dependencies, parser,
                               load_log>>
                /\ pc' = "for"
    /\ ref_idx' = ref_idx + 1
    /\ UNCHANGED <<schema_files, main_path, definitions, processed_count,
                   current_refs, structure>>
    /\ UNCHANGED <<chain_vars, tool_vars>>

\* the for loop is exhausted: back to the while test
ForEnd ==
    /\ pc = "for"
    /\ ref_idx > Len(current_refs)
    /\ pc' = "while"
    /\ UNCHANGED <<schema_files, main_path, definitions, processed_files,
                   all_roots, schema_references, imported_namespaces,
                   file_dependencies, parser, processed_count, current_refs,
                   ref_idx, load_log, structure>>
    /\ UNCHANGED <<chain_vars, tool_vars>>

\* parse() on the constructed parser, returning get_structure()
Parse ==
    /\ pc = "loaded"
    /\ Len(all_roots) > 0
    /\ LET p == CalculateStatistics(
                    CalculateCrossFileDependencies(
                        ParseAllFiles(parser, all_roots)))
       IN  /\ parser' = p
           /\ structure' = GetStructure(p)
    /\ pc' = "parsed"
    /\ UNCHANGED <<schema_files, main_path, definitions, processed_files,
                   all_roots, schema_references, imported_namespaces,
                   file_dependencies, processed_count, current_refs, ref_idx,
                   load_log>>
    /\ UNCHANGED <<chain_vars, tool_vars>>

----------------------------------------------------------------------------
(* Actions of the single-file parser, XSDParser, on the root file.         *)

\* XSDParser.__init__ and _load_schema
XsdLoadSchema ==
    /\ pc = "construct"
    /\ Content(main_path.file) = "schema"
    /\ parser' = [parser EXCEPT
                     !.root = RootElement(main_path.file, 1),
                     !.target_namespace =
                         definitions[main_path.file].target_namespace]
    /\ pc' = "loaded"
    /\ load_log' = Append(load_log, main_path)
    /\ UNCHANGED <<schema_files, main_path, definitions, processed_files,
                   all_roots, schema_references, imported_namespaces,
                   file_dependencies, processed_count, current_refs, ref_idx,
                   structure>>
    /\ UNCHANGED <<chain_vars, tool_vars>>

\* XSDParser.parse, called on a loaded parser and once more on a parsed one
XsdParse ==
    /\ pc \in {"loaded", "parsed"}
    /\ parser.root # NoRoot
    /\ LET p == CalculateStatistics(CalculateDependencies(ParseSteps(parser)))
       IN  /\ parser' = p
           /\ structure' = XsdStructure(p)
    /\ pc' = IF pc = "loaded" THEN "parsed" ELSE "reparsed"
    /\ UNCHANGED <<schema_files, main_path, definitions, processed_files,
                   all_roots, schema_references, imported_namespaces,
                   file_dependencies, processed_count, current_refs, ref_idx,
                   load_log>>
    /\ UNCHANGED <<chain_vars, tool_vars>>

XsdNext == XsdLoadSchema \/ XsdParse

----------------------------------------------------------------------------
(* The file sets explored: a tree of files 1..n in which every file but    *)
(* the root is declared once by a file of smaller number (all with the     *)
(* same kind of declaration), plus at most one further declaration of any  *)
(* kind, namespace and location placed anywhere in any of the files.       *)

ReferenceTypes == {"import", "include", "redefine"}

ForwardDecl(kind, child) ==
    [reference_type  |-> kind,
     namespace       |-> IF kind = "import" THEN child ELSE NoNamespace,
     schema_location |-> LocalLocation(child)]

ForwardDecls(parent, kind, f) ==
    LET children == SortedSeq({c \in DOMAIN parent : parent[c] = f})
    IN  [i \in 1..Len(children) |-> ForwardDecl(kind, children[i])]

Locations(n) ==
    {LocalLocation(f) : f \in (1..n) \cup {UnreadableFile, GarbageFile, NoFile}}
        \cup {RemoteLocation(s) : s \in RemoteSchemes}

ExtraDecls(n) ==
    [reference_type : {"import"}, namespace : {NoNamespace, MaxFiles},
     schema_location : Locations(n) \cup {NoLocation}]
        \cup [reference_type : {"include", "redefine"}, namespace : {NoNamespace},
              schema_location : Locations(n)]

Trees(n) == {p \in [2..n -> 1..n] : \A c \in 2..n : p[c] < c}

PlainFileSet(parent, kind) ==
    [f \in DiskFiles |-> IF f \in Files THEN ForwardDecls(parent, kind, f) ELSE <<>>]

\* fs is one of the explored file sets
IsFileSet(fs) ==
    \E n \in 1..MaxFiles, kind \in ReferenceTypes :
        \E parent \in Trees(n) :
            LET plain == PlainFileSet(parent, kind)
            IN  \/ fs = plain
                \/ \E x \in 1..n, d \in ExtraDecls(n) :
                       \E k \in 0..Len(plain[x]) :
                           fs = [plain EXCEPT ![x] = InsertAt(@, k, d)]

\* The components explored: every file defines a simple type, a complex
\* type and a global element of a name of its own, the element being of the
\* file's complex type; in addition one name may be defined, as a component
\* of one kind, by one or by two of the files, before or after their own.
OwnName(f) == f
SharedName == MaxFiles + 1
ComponentKinds == {"simple_types", "complex_types", "elements"}

PlainComplexType(f) ==
    ComplexTypeNode(OwnName(f), f, "none", "none", NoType, <<>>)

PlainComponents(f) ==
    [target_namespace |-> f,
     simple_types  |-> <<TypeNode(OwnName(f), f)>>,
     complex_types |-> <<PlainComplexType(f)>>,
     elements      |-> <<ElementNode(OwnName(f), f, TypeRef("tns", OwnName(f)),
                                     <<>>)>>,
     attributes    |-> <<>>,
     attribute_groups |-> <<>>]

PlainDefinitions ==
    [f \in DiskFiles |-> IF f \in Files THEN PlainComponents(f) ELSE NoDefinitions]

SharedNode(kind, f) ==
    CASE kind = "elements" -> ElementNode(SharedName, f, NoType, <<>>)
      [] kind = "complex_types" ->
             ComplexTypeNode(SharedName, f, "none", "none", NoType, <<>>)
      [] kind = "simple_types" -> TypeNode(SharedName, f)

WithShared(ds, kind, f, front) ==
    [ds EXCEPT ![f][kind] = IF front THEN <<SharedNode(kind, f)>> \o @
                            ELSE Append(@, SharedNode(kind, f))]

\* ds is one of the explored component layouts of files 1..n
IsDefinitionSet(ds, n) ==
    \/ ds = PlainDefinitions
    \/ \E kind \in ComponentKinds, a \in 1..n, front \in BOOLEAN :
           \E b \in a..n :
               ds = WithShared(WithShared(PlainDefinitions, kind, a, front),
                               kind, b, front)

\* the fields of a parser object before _load_schema
FreshParser ==
    /\ processed_files = {}
    /\ all_roots = <<>>
    /\ schema_references = <<>>
    /\ imported_namespaces = <<>>
    /\ file_dependencies = <<>>
    /\ parser = NewParser
    /\ processed_count = 0
    /\ current_refs = <<>>
    /\ ref_idx = 1
    /\ pc = "construct"
    /\ load_log = <<>>
    /\ structure = NoStructure

InitResolver ==
    /\ IsFileSet(schema_files)
    /\ main_path \in {ResolvedPath(MainFile), GivenPath(MainFile)}
    /\ definitions = PlainDefinitions
    /\ FreshParser

\* The inputs of the merge: a tree of includes, at most one include of the
\* root file at the end of one of the files, and any explored layout of
\* components.
BackReference ==
    [reference_type  |-> "include",
     namespace       |-> NoNamespace,
     schema_location |-> LocalLocation(MainFile)]

IsMergeInput(fs, ds) ==
    \E n \in 1..MaxFiles :
        \E parent \in Trees(n) :
            LET plain == PlainFileSet(parent, "include")
            IN  /\ \/ fs = plain
                   \/ \E x \in 1..n :
                          fs = [plain EXCEPT ![x] = Append(@, BackReference)]
                /\ IsDefinitionSet(ds, n)

InitMerge ==
    /\ IsMergeInput(schema_files, definitions)
    /\ main_path \in {ResolvedPath(MainFile), GivenPath(MainFile)}
    /\ FreshParser

IdleChain ==
    /\ complex_types = <<>>
    /\ type_name = 0
    /\ chain = <<>>
    /\ current_type = 0
    /\ chain_pc = "idle"

IdleAnalyzer ==
    /\ xsd_files = <<>>
    /\ parsers = <<>>
    /\ structures = <<>>
    /\ component_dependencies = <<>>
    /\ analyze_idx = 1
    /\ analyzer_pc = "idle"

IdleSelective ==
    /\ selection_criteria = <<>>
    /\ selected_components = <<>>
    /\ criteria_idx = 1
    /\ combined = <<>>
    /\ select_pc = "idle"

IdleTools == IdleAnalyzer /\ IdleSelective

Init == InitResolver /\ IdleChain /\ IdleTools

Next == LoadMain \/ WhileTest \/ ForRef \/ ForEnd \/ Parse

Spec == Init /\ [][Next]_vars

MergeInit == InitMerge /\ IdleChain /\ IdleTools

MergeSpec == MergeInit /\ [][Next]_vars

\* The inputs of the extraction of complex types: a root file that includes
\* a second file, the complex type of one of the two being any of the
\* explored definitions: no wrapper, or a complexContent or simpleContent
\* wrapper holding an extension or a restriction of a base given bare, with
\* the schema's own prefix or with the xs prefix, and up to MaxParticles
\* element declarations in its content.
Wrappers == {"complexContent", "simpleContent"}
Derivations == {"extension", "restriction"}
BaseReferences ==
    {TypeRef(p, j) : p \in {"", "tns"}, j \in {1, 2}}
        \cup {TypeRef("xs", BuiltinName)}

Particles(f, k) ==
    [i \in 1..k |-> ElementNode(MaxFiles + 1 + i, f, TypeRef("xs", BuiltinName),
                                <<>>)]

\* the explored layouts with the complex type of file f replaced by node
WithComplexType(f, node) ==
    [PlainDefinitions EXCEPT ![f].complex_types = <<node>>]

TwoFiles == PlainFileSet([c \in {2} |-> MainFile], "include")

InitDerivation ==
    /\ schema_files = TwoFiles
    /\ main_path \in {ResolvedPath(MainFile), GivenPath(MainFile)}
    /\ \E f \in {MainFile, 2}, k \in 0..MaxParticles :
           \/ definitions =
                  WithComplexType(f, ComplexTypeNode(OwnName(f), f, "none", "none",
                                                     NoType, Particles(f, k)))
           \/ \E w \in Wrappers, d \in Derivations, b \in BaseReferences :
                  definitions =
                      WithComplexType(f, ComplexTypeNode(OwnName(f), f, w, d, b,
                                                         Particles(f, k)))
    /\ FreshParser

DerivationInit == InitDerivation /\ IdleChain /\ IdleTools

DerivationSpec == DerivationInit /\ [][Next]_vars

\* The inputs of the dependency calculation: the same two files, the root
\* file declaring, before its own element, an element with up to MaxDepth
\* levels of nesting (each level one element declared inside the inline
\* complex type of the level above), every level with no type attribute or
\* with one of two types.
TypeChoices == {NoType, TypeRef("tns", 1), TypeRef("tns", 2)}
LevelName(level) == MaxFiles + 1 + level

RECURSIVE NestedElements(_, _, _)
NestedElements(f, types, level) ==
    IF level > Len(types) THEN <<>>
    ELSE <<ElementNode(LevelName(level), f, types[level],
                       NestedElements(f, types, level + 1))>>

InitDependencies ==
    /\ schema_files = TwoFiles
    /\ main_path \in {ResolvedPath(MainFile), GivenPath(MainFile)}
    /\ \E d \in 1..MaxDepth :
           \E types \in [1..d -> TypeChoices] :
               definitions =
                   [PlainDefinitions EXCEPT ![MainFile].elements =
                        NestedElements(MainFile, types, 1) \o @]
    /\ FreshParser

DependenciesInit == InitDependencies /\ IdleChain /\ IdleTools

DependenciesSpec == DependenciesInit /\ [][Next]_vars

\* The inputs of the resolution of relative locations: file 1 declares file
\* 2 of the subdirectory, file 2 may declare file 1, and any of the files
\* 1..4 may declare, after that, the bare name that files 3 and 4 share.
InitDirectory ==
    /\ \E kind \in ReferenceTypes, own \in SUBSET (1..4), back \in BOOLEAN :
           schema_files =
               [f \in DiskFiles |->
                   (IF f = 1 THEN <<ForwardDecl(kind, 2)>>
                    ELSE IF f = 2 /\ back THEN <<ForwardDecl(kind, 1)>>
                    ELSE <<>>)
                   \o (IF f \in own THEN <<ForwardDecl(kind, SiblingName)>>
                       ELSE <<>>)]
    /\ main_path \in {ResolvedPath(MainFile), GivenPath(MainFile)}
    /\ definitions = PlainDefinitions
    /\ FreshParser

\* The inputs of the extraction of simple types: the simple type of the
\* root file is a restriction of a base with up to MaxFacets children, each
\* an enumeration or a facet with a value.
FacetTags ==
    {"enumeration", "minLength", "maxLength", "pattern", "minInclusive",
     "maxInclusive", "minExclusive", "maxExclusive", "totalDigits",
     "fractionDigits", "whiteSpace"}
FacetValues == {"", "A", "B"}

InitSimpleTypes ==
    /\ schema_files = TwoFiles
    /\ main_path = ResolvedPath(MainFile)
    /\ \E n \in 0..MaxFacets :
           \E c \in [1..n -> [tag : FacetTags, value : FacetValues]] :
               definitions =
                   [PlainDefinitions EXCEPT ![MainFile].simple_types =
                       <<RestrictedType(OwnName(MainFile), MainFile,
                                        TypeRef("xs", BuiltinName), c)>>]
    /\ FreshParser

SimpleTypesInit == InitSimpleTypes /\ IdleChain /\ IdleTools

SimpleTypesSpec == SimpleTypesInit /\ [][Next]_vars

\* The inputs of the extraction of attributes.  The root file declares a
\* global attribute, an attribute group (an attribute of its own and a
\* reference to the global one), a complex type and an element.  The
\* complex type has up to MaxAttributes attribute elements (a declaration,
\* a declaration that has the name of the global attribute, a reference to
\* the global attribute with or without a use, a reference to nothing),
\* references to attribute groups, and a sequence whose second element may
\* lie in a nested choice.  The element has an inline type with a child
\* element; each may have an attribute.
GlobalAttributeName == 1
GroupName == 2
XsType == TypeRef("xs", BuiltinName)

AttributeChoices ==
    {AttributeNode(3, NoType, XsType, NoUse, NoValue),
     AttributeNode(GlobalAttributeName, NoType, NoType, "required", NoValue),
     AttributeNode(NoName, TypeRef("tns", GlobalAttributeName), NoType, NoUse,
                   NoValue),
     AttributeNode(NoName, TypeRef("tns", GlobalAttributeName), NoType,
                   "required", NoValue),
     AttributeNode(NoName, TypeRef("tns", 4), NoType, NoUse, NoValue)}

GroupChoices ==
    {<<>>, <<TypeRef("tns", GroupName)>>,
     <<TypeRef("tns", GroupName), TypeRef("tns", GroupName)>>,
     <<TypeRef("tns", GroupName), TypeRef("", GroupName)>>,
     <<TypeRef("tns", 3)>>,
     <<TypeRef("tns", GroupName), TypeRef("tns", 3)>>}

AttributeDefinitions(attrs, groups, nested, own, inner) ==
    [PlainDefinitions EXCEPT
        ![MainFile].attributes =
            <<AttributeNode(GlobalAttributeName, NoType, XsType, NoUse, 1)>>,
        ![MainFile].attribute_groups =
            <<[name       |-> GroupName,
               attributes |->
                   <<AttributeNode(5, NoType, NoType, NoUse, NoValue),
                     AttributeNode(NoName, TypeRef("tns", GlobalAttributeName),
                                   NoType, NoUse, NoValue)>>]>>,
        ![MainFile].complex_types =
            <<ComplexTypeWith(OwnName(MainFile), MainFile, "none", "none", NoType,
                  <<ElementNode(LevelName(1), MainFile, XsType, <<>>),
                    IF nested
                    THEN ContainerNode(<<ElementNode(LevelName(2), MainFile,
                                                     XsType, <<>>)>>)
                    ELSE ElementNode(LevelName(2), MainFile, XsType, <<>>)>>,
                  attrs, groups)>>,
        ![MainFile].elements =
            <<ElementWith(OwnName(MainFile), MainFile, NoType,
                  <<ElementWith(LevelName(3), MainFile, NoType, <<>>, inner,
                                <<>>)>>,
                  own, <<>>)>>]

InitAttributes ==
    /\ schema_files = TwoFiles
    /\ main_path = ResolvedPath(MainFile)
    /\ \E n \in 0..MaxAttributes, groups \in GroupChoices, nested \in BOOLEAN,
          k \in 0..1, m \in 0..1 :
           \E attrs \in [1..n -> AttributeChoices],
              own \in [1..k -> AttributeChoices],
              inner \in [1..m -> {AttributeNode(6, NoType, XsType, NoUse, NoValue)}] :
               definitions = AttributeDefinitions(attrs, groups, nested, own, inner)
    /\ FreshParser

\* the multi-file parser on these inputs
AttributesInit == InitAttributes /\ IdleChain /\ IdleTools

AttributesSpec == AttributesInit /\ [][Next]_vars

\* the single-file parser on these inputs
XsdInit == InitAttributes /\ IdleChain /\ IdleTools

XsdSpec == XsdInit /\ [][XsdNext]_vars

DirectoryInit == InitDirectory /\ IdleChain /\ IdleTools

DirectorySpec == DirectoryInit /\ [][Next]_vars

----------------------------------------------------------------------------
(* LargeXSDToCSVConverter._build_inheritance_chain                         *)

ChainCap == 10

\* `base_type.split(':')[-1] if ':' in base_type else base_type`
BaseName(base_type) == base_type.local

\* `chain.append(base_type)`
Extend(c, base_type) == Append(c, base_type)

\* ChainTooLong without the cap
ChainNeverTooLong(c) == FALSE

\* `if len(chain) > 10: break`
ChainTooLong(c) == Len(c) > ChainCap

\* chain = [type_name]; current_type = type_name
ChainBegin ==
    /\ chain_pc = "call"
    /\ chain' = <<TypeRef("", type_name)>>
    /\ current_type' = type_name
    /\ chain_pc' = "while"
    /\ UNCHANGED <<complex_types, type_name>>
    /\ UNCHANGED <<resolver_vars, tool_vars>>

\* one iteration of `while current_type in complex_types`
ChainIterate ==
    /\ chain_pc = "while"
    /\ current_type \in DOMAIN complex_types
    /\ Len(chain) <= MaxChainLen      \* exploration bound, never reached
    /\ LET base_type == complex_types[current_type]
       IN  IF base_type = NoBase
           THEN /\ chain_pc' = "returned"
                /\ UNCHANGED <<chain, current_type>>
           ELSE /\ chain' = Extend(chain, base_type)
                /\ current_type' = BaseName(base_type)
                /\ chain_pc' = IF ChainTooLong(chain') THEN "returned"
                               ELSE "while"
    /\ UNCHANGED <<complex_types, type_name>>
    /\ UNCHANGED <<resolver_vars, tool_vars>>

\* the while test fails: return chain
ChainExit ==
    /\ chain_pc = "while"
    /\ current_type \notin DOMAIN complex_types
    /\ chain_pc' = "returned"
    /\ UNCHANGED <<complex_types, type_name, chain, current_type>>
    /\ UNCHANGED <<resolver_vars, tool_vars>>

\* The type tables explored: types 1..n, each based on the next one, the
\* last one un-based, based on a built-in, on a type missing from the table
\* or on one of 1..n (a cycle); references all prefixed or all bare.  The
\* walk from any type of any table is the walk from some type of one of
\* these.
IsTypeTable(t) ==
    \E n \in 1..MaxTypes, p \in {"", "tns"} :
        \E last \in {NoBase, TypeRef("xs", BuiltinName), TypeRef(p, BuiltinName)}
                        \cup {TypeRef(p, j) : j \in 1..n} :
            t = [i \in 1..n |-> IF i < n THEN TypeRef(p, i + 1) ELSE last]

InitChain ==
    /\ IsTypeTable(complex_types)
    /\ type_name \in DOMAIN complex_types
    /\ chain = <<>>
    /\ current_type = NoName
    /\ chain_pc = "call"

IdleResolver ==
    /\ schema_files = <<>>
    /\ main_path = NoPath
    /\ definitions = <<>>
    /\ parser = NewParser
    /\ processed_files = {}
    /\ all_roots = <<>>
    /\ schema_references = <<>>
    /\ imported_namespaces = <<>>
    /\ file_dependencies = <<>>
    /\ processed_count = 0
    /\ current_refs = <<>>
    /\ ref_idx = 1
    /\ pc = "idle"
    /\ load_log = <<>>
    /\ structure = NoStructure

ChainInit == InitChain /\ IdleResolver /\ IdleTools

ChainNext == ChainBegin \/ ChainIterate \/ ChainExit

ChainSpec == ChainInit /\ [][ChainNext]_vars

\* the walk is sequential code: an enabled step is taken
FairChainSpec == ChainSpec /\ WF_vars(ChainNext)

----------------------------------------------------------------------------
(* `parser = MultiFileXSDParser(path); structure = parser.parse()` as the  *)
(* analyzer and the selective parser run it on a resolved path whose files *)
(* all load: the files are loaded in the order in which the reference list *)
(* first names them, and merged in that order.                             *)

\* the files the declarations of file f resolve to, in reference-list order
DeclaredFiles(f) ==
    LET refs == SelectSeq(ExtractedReferences(schema_files[f], ResolvedPath(f)),
                          IsDependency)
    IN  [i \in 1..Len(refs) |-> refs[i].resolved_path.file]

RECURSIVE AppendNew(_, _)
AppendNew(loaded, fs) ==
    IF fs = <<>> THEN loaded
    ELSE AppendNew(IF Head(fs) \in Range(loaded) THEN loaded
                   ELSE Append(loaded, Head(fs)),
                   Tail(fs))

RECURSIVE LoadOrder(_, _)
LoadOrder(loaded, i) ==
    IF i > Len(loaded) THEN loaded
    ELSE LoadOrder(AppendNew(loaded, DeclaredFiles(loaded[i])), i + 1)

RECURSIVE ReferencesOf(_)
ReferencesOf(order) ==
    IF order = <<>> THEN <<>>
    ELSE ExtractedReferences(schema_files[Head(order)], ResolvedPath(Head(order)))
             \o ReferencesOf(Tail(order))

ParsedFile(path) ==
    LET order == LoadOrder(<<path.file>>, 1)
        roots == [i \in 1..Len(order) |->
                     [key |-> ResolvedPath(order[i]),
                      root |-> RootElement(order[i], i)]]
        fresh == [NewParser EXCEPT
                     !.root = roots[1].root,
                     !.target_namespace = definitions[path.file].target_namespace]
        p == ParseAllFiles(fresh, roots)
    IN  [target_namespace  |-> p.target_namespace,
         schema_references |-> ReferencesOf(order),
         loaded            |-> order,
         structure         |-> [target_namespace |-> p.target_namespace,
                                elements         |-> p.elements,
                                global_elements  |-> p.global_elements,
                                complex_types    |-> p.complex_types,
                                simple_types     |-> p.simple_types]]

----------------------------------------------------------------------------
(* XSDRelationshipAnalyzer: the component dependencies.                    *)

\* Path(file_path).name
FileName(path) == path.file

\* analyzer._parse_all_files: every given file parses
AnalyzerParse ==
    /\ analyzer_pc = "parse"
    /\ parsers' = [path \in Range(xsd_files) |-> ParsedFile(path)]
    /\ structures' = [path \in Range(xsd_files) |-> ParsedFile(path).structure]
    /\ analyzer_pc' = "components"
    /\ UNCHANGED <<xsd_files, component_dependencies, analyze_idx>>
    /\ UNCHANGED <<resolver_vars, chain_vars, selective_vars>>

\* _resolve_type_reference: the first import of the source parser whose
\* target is an analysed file with a type of that local name; the prefix
\* takes no part
ResolveTypeReference(source_file, prefix, local_name) ==
    LET Holds(ref) ==
            /\ ref.reference_type = "import"
            /\ ref.resolved_path # NoPath
            /\ ref.resolved_path \in DOMAIN structures
            /\ \/ local_name \in DOMAIN structures[ref.resolved_path].complex_types
               \/ local_name \in DOMAIN structures[ref.resolved_path].simple_types
        hits == IF source_file \in DOMAIN parsers
                THEN SelectSeq(parsers[source_file].schema_references, Holds)
                ELSE <<>>
    IN  IF hits # <<>> THEN Head(hits).resolved_path ELSE NoPath

\* `type and ':' in type`
IsPrefixed(type) == type # NoType /\ type.prefix # ""

ComponentDependency(file_path, name, src, target_file, type, tgt, dep) ==
    [source_file      |-> FileName(file_path),
     source_component |-> name,
     source_type      |-> src,
     target_file      |-> FileName(target_file),
     target_component |-> type.local,
     target_type      |-> tgt,
     dependency_type  |-> dep]

\* the test of `if target_file and target_file != file_path`
IsOtherFile(target_file, file_path) ==
    target_file # NoPath /\ target_file # file_path

\* the dependency, if any, of a component with a type or base reference
WithDependency(deps, file_path, name, src, type, tgt, dep) ==
    LET target_file == ResolveTypeReference(file_path, type.prefix, type.local)
    IN  IF IsPrefixed(type) /\ IsOtherFile(target_file, file_path)
        THEN Append(deps, ComponentDependency(file_path, name, src,
                                              target_file, type, tgt, dep))
        ELSE deps

RECURSIVE FindDependenciesInElements(_, _, _)
FindDependenciesInElements(deps, file_path, elements) ==
    IF elements = <<>> THEN deps
    ELSE LET element == Head(elements)
             own == WithDependency(deps, file_path, element.name, "element",
                                   element.type, "complexType", "type_reference")
             below == FindDependenciesInElements(own, file_path, element.children)
         IN  FindDependenciesInElements(below, file_path, Tail(elements))

\* the items of a name-keyed table, here listed by name
Items(table) ==
    LET names == SortedSeq(DOMAIN table)
    IN  [i \in 1..Len(names) |-> table[names[i]]]

RECURSIVE FindDependenciesInComplexTypes(_, _, _)
FindDependenciesInComplexTypes(deps, file_path, types) ==
    IF types = <<>> THEN deps
    ELSE LET type_def == Head(types)
             own == WithDependency(deps, file_path, type_def.name, "complexType",
                                   type_def.base_type, "complexType", "base_type")
             inner == FindDependenciesInElements(own, file_path, type_def.elements)
         IN  FindDependenciesInComplexTypes(inner, file_path, Tail(types))

RECURSIVE FindDependenciesInSimpleTypes(_, _, _)
FindDependenciesInSimpleTypes(deps, file_path, types) ==
    IF types = <<>> THEN deps
    ELSE LET type_def == Head(types)
             own == WithDependency(deps, file_path, type_def.name, "simpleType",
                                   type_def.base_type, "simpleType", "base_type")
         IN  FindDependenciesInSimpleTypes(own, file_path, Tail(types))

\* one iteration of `for file_path, structure in self.structures.items()`
AnalyzeComponents ==
    /\ analyzer_pc = "components"
    /\ analyze_idx <= Len(xsd_files)
    /\ LET file_path == xsd_files[analyze_idx]
           structure_ == structures[file_path]
           d1 == FindDependenciesInElements(component_dependencies, file_path,
                                            structure_.elements)
           d2 == FindDependenciesInComplexTypes(d1, file_path,
                                                Items(structure_.complex_types))
       IN  component_dependencies' =
               FindDependenciesInSimpleTypes(d2, file_path,
                                             Items(structure_.simple_types))
    /\ analyze_idx' = analyze_idx + 1
    /\ UNCHANGED <<xsd_files, parsers, structures, analyzer_pc>>
    /\ UNCHANGED <<resolver_vars, chain_vars, selective_vars>>

AnalyzeDone ==
    /\ analyzer_pc = "components"
    /\ analyze_idx > Len(xsd_files)
    /\ analyzer_pc' = "analysed"
    /\ UNCHANGED <<xsd_files, parsers, structures, component_dependencies,
                   analyze_idx>>
    /\ UNCHANGED <<resolver_vars, chain_vars, selective_vars>>

\* The libraries analysed: file 1, of namespace 1, imports file 2, of
\* namespace 2, which may import file 1; each of the two defines any of the
\* complex types named 1 and 2; file 1 declares an element and a simple type
\* whose type and base are one reference, with prefix "tns" (bound to the
\* namespace of the file), "lib" (bound to the namespace of the other file)
\* or "xs".
LibraryFiles == {1, 2}
XsNamespace == MaxFiles + 1
NamespaceOf(f, prefix) ==
    CASE prefix = "tns" -> definitions[f].target_namespace
      [] prefix = "lib" -> definitions[3 - f].target_namespace
      [] prefix = "xs" -> XsNamespace
      [] OTHER -> NoNamespace

Import(f) ==
    [reference_type  |-> "import",
     namespace       |-> f,
     schema_location |-> LocalLocation(f)]

LibraryFileSet(back) ==
    [f \in DiskFiles |->
        CASE f = 1 -> <<Import(2)>>
          [] f = 2 /\ back -> <<Import(1)>>
          [] OTHER -> <<>>]

PlainComplexTypes(f, names) ==
    LET ns == SortedSeq(names)
    IN  [i \in 1..Len(ns) |->
            ComplexTypeNode(ns[i], f, "none", "none", NoType, <<>>)]

LibraryReferences ==
    {TypeRef(p, l) : p \in {"tns", "lib"}, l \in LibraryFiles}
        \cup {TypeRef("xs", BuiltinName)}

LibraryDefinitions(s1, s2, type) ==
    [f \in DiskFiles |->
        CASE f = 1 ->
                 [target_namespace |-> 1,
                  simple_types  |-> <<SimpleTypeNode(LevelName(2), 1, type)>>,
                  complex_types |-> PlainComplexTypes(1, s1),
                  elements      |-> <<ElementNode(LevelName(1), 1, type, <<>>)>>,
                  attributes    |-> <<>>,
                  attribute_groups |-> <<>>]
          [] f = 2 ->
                 [target_namespace |-> 2,
                  simple_types  |-> <<>>,
                  complex_types |-> PlainComplexTypes(2, s2),
                  elements      |-> <<>>,
                  attributes    |-> <<>>,
                  attribute_groups |-> <<>>]
          [] OTHER -> NoDefinitions]

\* the resolver's own variables while one of the tools runs on the files
ToolResolver ==
    /\ main_path = NoPath
    /\ processed_files = {}
    /\ all_roots = <<>>
    /\ schema_references = <<>>
    /\ imported_namespaces = <<>>
    /\ file_dependencies = <<>>
    /\ parser = NewParser
    /\ processed_count = 0
    /\ current_refs = <<>>
    /\ ref_idx = 1
    /\ pc = "idle"
    /\ load_log = <<>>
    /\ structure = NoStructure

InitAnalyzer ==
    /\ \E back \in BOOLEAN : schema_files = LibraryFileSet(back)
    /\ \E s1 \in SUBSET LibraryFiles, s2 \in SUBSET LibraryFiles,
          type \in LibraryReferences :
           definitions = LibraryDefinitions(s1, s2, type)
    /\ xsd_files = <<ResolvedPath(1), ResolvedPath(2)>>
    /\ parsers = <<>>
    /\ structures = <<>>
    /\ component_dependencies = <<>>
    /\ analyze_idx = 1
    /\ analyzer_pc = "parse"

AnalyzerInit == InitAnalyzer /\ ToolResolver /\ IdleChain /\ IdleSelective

AnalyzerNext == AnalyzerParse \/ AnalyzeComponents \/ AnalyzeDone

AnalyzerSpec == AnalyzerInit /\ [][AnalyzerNext]_vars

----------------------------------------------------------------------------
(* SelectiveXSDParser: parse_selections.                                   *)

\* the namespace "*" of a criterion
Wildcard == MaxFiles + 2

\* the key f"{component_type}:{name}" of selected_components
ComponentKey(component_type, name) == [component_type |-> component_type,
                                       name           |-> name]

\* _find_element_dependencies and _find_type_dependencies: the component
\* data is a dict, hasattr finds no attribute on it, the set stays empty
FindElementDependencies(element_data) == {}
FindTypeDependencies(type_data) == {}

SelectedComponent(name, component_type, criteria, p, component_data) ==
    [name           |-> name,
     component_type |-> component_type,
     source_file    |-> criteria.file_path,
     namespace      |-> p.target_namespace,
     component_data |-> component_data,
     dependencies   |-> IF component_type = "element"
                        THEN FindElementDependencies(component_data)
                        ELSE IF component_type = "complex_type"
                             THEN FindTypeDependencies(component_data)
                             ELSE {}]

HasKey(components, key) ==
    \E i \in 1..Len(components) : components[i].key = key

\* a store that keeps every assignment as an entry of its own
DictAppend(components, key, selected) ==
    Append(components, [key |-> key, value |-> selected])

\* `self.selected_components[key] = selected` on an insertion-ordered dict
DictStore(components, key, selected) ==
    IF HasKey(components, key)
    THEN [i \in 1..Len(components) |->
             IF components[i].key = key
             THEN [key |-> key, value |-> selected]
             ELSE components[i]]
    ELSE Append(components, [key |-> key, value |-> selected])

\* _extract_selected_elements, _extract_selected_complex_types and
\* _extract_selected_simple_types: the named entries of one table
RECURSIVE ExtractSelected(_, _, _, _, _, _)
ExtractSelected(components, p, criteria, table, component_type, names) ==
    IF names = <<>> THEN components
    ELSE LET name == Head(names)
             next == IF name \in DOMAIN table
                     THEN DictStore(components, ComponentKey(component_type, name),
                                    SelectedComponent(name, component_type,
                                                      criteria, p, table[name]))
                     ELSE components
         IN  ExtractSelected(next, p, criteria, table, component_type, Tail(names))

\* a test that lets every key be stored again
IsAnyComponent(components, key) == TRUE

\* `if key not in self.selected_components`
IsNewComponent(components, key) == ~HasKey(components, key)

\* one of the three loops of _extract_by_namespace over a whole table
RECURSIVE CopyTable(_, _, _, _, _)
CopyTable(components, p, criteria, component_type, entries) ==
    IF entries = <<>> THEN components
    ELSE LET data == Head(entries)
             key == ComponentKey(component_type, data.name)
             next == IF IsNewComponent(components, key)
                     THEN DictStore(components, key,
                                    SelectedComponent(data.name, component_type,
                                                      criteria, p, data))
                     ELSE components
         IN  CopyTable(next, p, criteria, component_type, Tail(entries))

RECURSIVE ExtractByNamespace(_, _, _, _)
ExtractByNamespace(components, p, criteria, namespaces) ==
    IF namespaces = <<>> THEN components
    ELSE LET namespace == Head(namespaces)
             c1 == CopyTable(components, p, criteria, "element",
                             Items(p.structure.global_elements))
             c2 == CopyTable(c1, p, criteria, "complex_type",
                             Items(p.structure.complex_types))
             c3 == CopyTable(c2, p, criteria, "simple_type",
                             Items(p.structure.simple_types))
             next == IF namespace = Wildcard \/ namespace = p.target_namespace
                     THEN c3 ELSE components
         IN  ExtractByNamespace(next, p, criteria, Tail(namespaces))

\* Path(file_path).exists()
Exists(file_path) == file_path \in Files

\* _parse_file_selection for one entry of selection_criteria
ParseFileSelection ==
    /\ select_pc = "select"
    /\ criteria_idx <= Len(selection_criteria)
    /\ LET criteria == selection_criteria[criteria_idx]
           p == ParsedFile(ResolvedPath(criteria.file_path))
           c1 == ExtractSelected(selected_components, p, criteria,
                                 p.structure.global_elements, "element",
                                 criteria.elements)
           c2 == ExtractSelected(c1, p, criteria, p.structure.complex_types,
                                 "complex_type", criteria.complex_types)
           c3 == ExtractSelected(c2, p, criteria, p.structure.simple_types,
                                 "simple_type", criteria.simple_types)
       IN  selected_components' =
               IF Exists(criteria.file_path)
               THEN ExtractByNamespace(c3, p, criteria, criteria.namespaces)
               ELSE selected_components
    /\ criteria_idx' = criteria_idx + 1
    /\ UNCHANGED <<selection_criteria, combined, select_pc>>
    /\ UNCHANGED <<resolver_vars, chain_vars, analyzer_vars>>

\* _resolve_dependencies: the body is `pass`
ResolveDependencies(components) == components

CountOfType(components, component_type) ==
    Cardinality({i \in 1..Len(components) :
                    components[i].value.component_type = component_type})

\* the loop of _build_combined_structure that groups the components
RECURSIVE GroupByType(_, _, _)
GroupByType(table, components, component_type) ==
    IF components = <<>> THEN table
    ELSE LET component == Head(components).value
             next == IF component.component_type = component_type
                     THEN (component.name :>
                              [data        |-> component.component_data,
                               source_file |-> component.source_file]) @@ table
                     ELSE table
         IN  GroupByType(next, Tail(components), component_type)

BuildCombinedStructure(components) ==
    [metadata |->
        [total_files |-> Cardinality({components[i].value.source_file :
                                         i \in 1..Len(components)}),
         selected_components |-> Len(components),
         statistics |->
            [total_elements      |-> CountOfType(components, "element"),
             total_complex_types |-> CountOfType(components, "complex_type"),
             total_simple_types  |-> CountOfType(components, "simple_type")]],
     elements        |-> GroupByType(<<>>, components, "element"),
     global_elements |-> GroupByType(<<>>, components, "element"),
     complex_types   |-> GroupByType(<<>>, components, "complex_type"),
     simple_types    |-> GroupByType(<<>>, components, "simple_type"),
     source_files    |-> {components[i].value.source_file :
                             i \in 1..Len(components)},
     namespaces      |-> {components[i].value.namespace :
                             i \in 1..Len(components)} \ {NoNamespace}]

\* the end of parse_selections: _resolve_dependencies, then
\* _build_combined_structure
BuildCombined ==
    /\ select_pc = "select"
    /\ criteria_idx > Len(selection_criteria)
    /\ selected_components' = ResolveDependencies(selected_components)
    /\ combined' = BuildCombinedStructure(selected_components')
    /\ select_pc' = "done"
    /\ UNCHANGED <<selection_criteria, criteria_idx>>
    /\ UNCHANGED <<resolver_vars, chain_vars, analyzer_vars>>

\* The schema selected from: file 1 (BookType, with a child element of type
\* AddressType) imports or includes file 2 (AddressType); both files define a
\* complex type of one shared name.  An included file has the namespace of
\* the including file.
BookType(kind) ==
    ComplexTypeNode(OwnName(1), 1, "none", "none", NoType,
        <<ElementNode(LevelName(1), 1,
                      TypeRef(IF kind = "include" THEN "tns" ELSE "lib",
                              OwnName(2)),
                      <<>>)>>)

SelectionFileSet(kind) ==
    [f \in DiskFiles |->
        IF f = 1
        THEN <<[reference_type  |-> kind,
                namespace       |-> IF kind = "import" THEN 2 ELSE NoNamespace,
                schema_location |-> LocalLocation(2)]>>
        ELSE <<>>]

SelectionDefinitions(kind) ==
    [PlainDefinitions EXCEPT
        ![1].complex_types = <<BookType(kind), SharedNode("complex_types", 1)>>,
        ![2].complex_types = Append(@, SharedNode("complex_types", 2)),
        ![2].target_namespace = IF kind = "include" THEN 1 ELSE 2]

SelectionNames == {OwnName(1), OwnName(2), SharedName}

SelectionCriteria(file_path, els, cts, sts, nss, include_dependencies) ==
    [file_path            |-> file_path,
     elements             |-> els,
     complex_types        |-> cts,
     simple_types         |-> sts,
     namespaces           |-> nss,
     include_dependencies |-> include_dependencies]

\* the criteria explored: one name of one kind, or one namespace, of file 1
\* or 2, and a criterion on a file that does not exist
CriteriaChoices(deps) ==
    {SelectionCriteria(f, <<n>>, <<>>, <<>>, <<>>, deps) :
         f \in LibraryFiles, n \in SelectionNames}
        \cup {SelectionCriteria(f, <<>>, <<n>>, <<>>, <<>>, deps) :
                  f \in LibraryFiles, n \in SelectionNames}
        \cup {SelectionCriteria(f, <<>>, <<>>, <<n>>, <<>>, deps) :
                  f \in LibraryFiles, n \in SelectionNames}
        \cup {SelectionCriteria(f, <<>>, <<>>, <<>>, <<ns>>, deps) :
                  f \in LibraryFiles, ns \in {Wildcard, 1, 2}}
        \cup {SelectionCriteria(NoFile, <<>>, <<>>, <<>>, <<Wildcard>>, deps)}

InitSelective ==
    /\ \E kind \in {"import", "include"} :
           /\ schema_files = SelectionFileSet(kind)
           /\ definitions = SelectionDefinitions(kind)
    /\ \E deps \in BOOLEAN, n \in 1..MaxCriteria :
           selection_criteria \in [1..n -> CriteriaChoices(deps)]
    /\ selected_components = <<>>
    /\ criteria_idx = 1
    /\ combined = <<>>
    /\ select_pc = "select"

SelectInit == InitSelective /\ ToolResolver /\ IdleChain /\ IdleAnalyzer

SelectNext == ParseFileSelection \/ BuildCombined

SelectSpec == SelectInit /\ [][SelectNext]_vars

----------------------------------------------------------------------------
(* Properties of the resolver.                                             *)

Terminated == pc \in {"parsed", "raised"}
Returned == pc \in {"loaded", "parsed"}

LoadedFiles == {p.file : p \in processed_files}

IsRemote(loc) == loc.scheme \in RemoteSchemes
IsMissing(loc) == loc.scheme = LocalScheme /\ loc.target = NoFile

\* the files a file's declarations name by a local location that exists
LocalTargets(f) ==
    {d.schema_location.target :
        d \in {e \in Range(schema_files[f]) :
                  e.schema_location.scheme = LocalScheme
                  /\ e.schema_location.target # NoFile}}

RECURSIVE Closure(_)
Closure(S) ==
    LET T == S \cup UNION {LocalTargets(f) : f \in S}
    IN  IF T = S THEN S ELSE Closure(T)

\* the files on disk reachable from the root file
ReachableFiles == Closure({MainFile})

\* some declaration leads back to an already loaded file
HasCycle == \E f \in ReachableFiles : f \in Closure(LocalTargets(f))

\* C1: no file on disk is loaded (opened, parsed, its references extracted)
\* a second time, and the loaded-file set and the root table hold one entry
\* per file on disk.
C1_LoadedAtMostOnce ==
    /\ \A i, j \in 1..Len(load_log) :
           load_log[i].file = load_log[j].file => i = j
    /\ \A p, q \in processed_files : p.file = q.file => p = q
    /\ \A i, j \in 1..Len(all_roots) :
           all_roots[i].key.file = all_roots[j].key.file => i = j

\* C2: a finished resolution reports one loaded file per reachable file:
\* total_files = N + 1 where N counts the reachable files other than the
\* root.
C2_TotalFiles ==
    pc = "parsed" =>
        structure.total_files = Cardinality(ReachableFiles \ {MainFile}) + 1

\* C3: when _process_schema_references has returned, every resolved path of
\* the reference list is in the loaded-file set, whatever its import depth.
C3_FixedPoint ==
    Returned =>
        \A i \in 1..Len(schema_references) :
            schema_references[i].resolved_path # NoPath
                => schema_references[i].resolved_path \in processed_files

\* a file declared only at the end of a chain of three declarations is loaded
C3_Witness ==
    /\ pc = "loaded"
    /\ MaxFiles \in LoadedFiles
    /\ \A f \in 1..(MaxFiles - 1) : LocalTargets(f) = {f + 1}
    /\ MaxFiles >= MainFile + 3

\* every spelling under which a file can enter the loaded-file set
PathKeys == {ResolvedPath(f) : f \in DiskFiles} \cup {GivenPath(MainFile)}

\* position in the control flow, counted from the end
Phase ==
    CASE pc = "construct" -> 4
      [] pc = "for" -> 3
      [] pc = "while" -> 2
      [] pc = "loaded" -> 1
      [] OTHER -> 0

\* Work left: path keys not loaded yet, then references not yet handed to a
\* pass, then references left in the current pass, then the control
\* position.  A load may add up to MaxWorklist references.
WorkLeft ==
    Cardinality(PathKeys \ processed_files) * (4 * MaxWorklist + 4)
        + 4 * (Len(schema_references) - processed_count)
        + 2 * (IF pc = "for" THEN Len(current_refs) + 1 - ref_idx ELSE 0)
        + Phase

\* the enabling condition of Next
CanStep ==
    \/ pc \in {"construct", "while"}
    \/ /\ pc = "for"
       /\ \/ ref_idx > Len(current_refs)
          \/ ~NeedsLoad(current_refs[ref_idx], processed_files)
          \/ Len(LoadSchemaFile(current_refs[ref_idx].resolved_path, FALSE)
                     .schema_references) <= MaxWorklist
    \/ pc = "loaded" /\ Len(all_roots) > 0

\* C4: reference resolution terminates, circular references included: until
\* the parser has raised or parse() has returned a step is possible, and
\* every step decreases the work left, a natural number (each load adds a
\* new path to the loaded-file set, so the reference list stops growing).
C4_Terminates ==
    /\ [](WorkLeft \in Nat /\ (~Terminated => CanStep))
    /\ [][WorkLeft' < WorkLeft]_vars

\* a resolution over circular references has finished
C4_Witness == pc = "parsed" /\ HasCycle

\* C5: a reference to a file that does not exist stays in the reference list
\* with an absent resolved path; its target is in neither the loaded set nor
\* the dependency lists; it raises nothing; every other reference is still
\* resolved and loaded.
C5_MissingFileSkipped ==
    /\ \A i \in 1..Len(schema_references) :
           IsMissing(schema_references[i].schema_location)
               => schema_references[i].resolved_path = NoPath
    /\ \A p \in processed_files :
           Content(p.file) = "schema" =>
               \A d \in Range(schema_files[p.file]) :
                   IsMissing(d.schema_location) =>
                       \E i \in 1..Len(schema_references) :
                           /\ schema_references[i].reference_type = d.reference_type
                           /\ schema_references[i].schema_location = d.schema_location
                           /\ schema_references[i].resolved_path = NoPath
    /\ \A p \in processed_files \cup DictKeys(all_roots) : p.file \in DiskFiles
    /\ \A k \in DOMAIN file_dependencies :
           \A j \in 1..Len(file_dependencies[k]) :
               file_dependencies[k][j].file \in DiskFiles
    /\ pc = "raised" => load_log[Len(load_log)].file \in {UnreadableFile, GarbageFile}
    /\ Returned => ReachableFiles \subseteq LoadedFiles

\* a missing reference is listed before a reference whose file got loaded
C5_Witness ==
    /\ pc = "loaded"
    /\ \E i, j \in 1..Len(schema_references) :
           /\ i < j
           /\ IsMissing(schema_references[i].schema_location)
           /\ schema_references[j].resolved_path \in processed_files
           /\ schema_references[j].resolved_path.file # MainFile

\* C6: a referenced file that exists but cannot be read or parsed aborts
\* only its own loading: the constructor does not raise.
C6_BadFileAbortsOnlyItself ==
    \A i \in 1..Len(load_log) :
        (load_log[i].file # MainFile /\ Content(load_log[i].file) # "schema")
            => pc # "raised"

\* C7: a reference with an http, https or ftp location is recorded with an
\* absent resolved path, never raises, and leaves no trace in the
\* namespace-to-file map or in the dependency lists: every entry of these
\* comes from a locally resolved reference.
C7_RemoteUnresolved ==
    /\ \A i \in 1..Len(schema_references) :
           IsRemote(schema_references[i].schema_location)
               => schema_references[i].resolved_path = NoPath
    /\ \A n \in DOMAIN imported_namespaces :
           \E i \in 1..Len(schema_references) :
               /\ ~IsRemote(schema_references[i].schema_location)
               /\ schema_references[i].reference_type = "import"
               /\ schema_references[i].namespace = n
               /\ schema_references[i].resolved_path # NoPath
               /\ schema_references[i].resolved_path = imported_namespaces[n]
    /\ \A k \in DOMAIN file_dependencies :
           \A j \in 1..Len(file_dependencies[k]) :
               \E i \in 1..Len(schema_references) :
                   /\ ~IsRemote(schema_references[i].schema_location)
                   /\ schema_references[i].resolved_path # NoPath
                   /\ schema_references[i].resolved_path = file_dependencies[k][j]
    /\ (\E i \in 1..Len(schema_references) :
            IsRemote(schema_references[i].schema_location))
           => \/ pc # "raised"
              \/ load_log[Len(load_log)].file \in {UnreadableFile, GarbageFile}

\* a remote import that declares a namespace has been recorded
C7_Witness ==
    /\ pc = "loaded"
    /\ \E i \in 1..Len(schema_references) :
           /\ IsRemote(schema_references[i].schema_location)
           /\ schema_references[i].reference_type = "import"
           /\ schema_references[i].namespace # NoNamespace

\* the locations that cannot be resolved or loaded
Unloadable(loc) ==
    IsRemote(loc) \/ IsMissing(loc) \/ Content(loc.target) # "schema"

\* C8: when resolution is over, parse() has returned a structure, and every
\* declaration of a loaded file whose location could not be resolved or
\* loaded is an entry of the structure's reference list with an absent
\* resolved path.
C8_FailuresReturned ==
    Terminated =>
        \A p \in processed_files :
            Content(p.file) = "schema" =>
                \A d \in Range(schema_files[p.file]) :
                    (d.schema_location # NoLocation /\ Unloadable(d.schema_location))
                        => /\ pc = "parsed"
                           /\ \E i \in 1..Len(structure.schema_references) :
                                  LET ref == structure.schema_references[i]
                                  IN  /\ ref.reference_type = d.reference_type
                                      /\ ref.schema_location = d.schema_location
                                      /\ ref.resolved_path = NoPath

----------------------------------------------------------------------------
(* Properties of the inheritance-chain walk.                               *)

\* the base a type name leads to, if any
BaseOf(n) ==
    IF n \in DOMAIN complex_types /\ complex_types[n] # NoBase
    THEN {complex_types[n].local}
    ELSE {}

RECURSIVE BaseClosure(_)
BaseClosure(S) ==
    LET T == S \cup UNION {BaseOf(n) : n \in S}
    IN  IF T = S THEN S ELSE BaseClosure(T)

\* the base-type references met from type_name lead back to a type already met
CyclicWalk == \E n \in BaseClosure({type_name}) : n \in BaseClosure(BaseOf(n))

\* C9: for a type whose base-type references are circular the walk reports an
\* error: it never returns a chain.
C9_CycleReported == CyclicWalk => chain_pc # "returned"

\* C10: _build_inheritance_chain returns, on cyclic tables too.
C10_ChainTerminates == <>(chain_pc = "returned")

\* the walk over a circular table has returned
C10_Witness == chain_pc = "returned" /\ CyclicWalk

\* the base references a complete walk from name n meets, in derivation order
RECURSIVE DerivationSteps(_)
DerivationSteps(n) ==
    IF n \in DOMAIN complex_types /\ complex_types[n] # NoBase
    THEN <<complex_types[n]>> \o DerivationSteps(complex_types[n].local)
    ELSE <<>>

\* C11: for a type whose base-type references are acyclic, with K derivation
\* steps back to a built-in, missing or un-based type, the returned chain is
\* the type followed by its K bases in derivation order: K + 1 entries.
C11_ChainComplete ==
    (chain_pc = "returned" /\ ~CyclicWalk) =>
        /\ Len(chain) = Len(DerivationSteps(type_name)) + 1
        /\ chain = <<TypeRef("", type_name)>> \o DerivationSteps(type_name)

----------------------------------------------------------------------------
(* Properties of the merge.                                                *)

\* the name-keyed table that holds the components of a kind
Table(kind) ==
    IF kind = "elements" THEN parser.global_elements ELSE parser[kind]

\* the names a file defines as components of a kind
DefinedIn(f, kind) ==
    {definitions[f][kind][i].name : i \in 1..Len(definitions[f][kind])}

\* the file of the last load that brought a definition of name n
LastLoadOf(kind, n) ==
    LET I == {i \in 1..Len(load_log) : n \in DefinedIn(load_log[i].file, kind)}
    IN  load_log[CHOOSE i \in I : \A j \in I : j <= i].file

\* C12: after the merge each name-keyed table (simple types, complex types,
\* global elements) holds exactly the names defined in some loaded file, and
\* the entry of a name is the definition of the file loaded last among those
\* that define it.
C12_MergedTables ==
    pc = "parsed" =>
        \A kind \in ComponentKinds :
            /\ DOMAIN Table(kind) = UNION {DefinedIn(f, kind) : f \in LoadedFiles}
            /\ \A n \in DOMAIN Table(kind) :
                   /\ Table(kind)[n].name = n
                   /\ Table(kind)[n].file = LastLoadOf(kind, n)

\* a merge in which two loaded files define one name
C12_Witness ==
    /\ pc = "parsed"
    /\ \E kind \in ComponentKinds, f \in LoadedFiles, g \in LoadedFiles :
           /\ f # g
           /\ DefinedIn(f, kind) \cap DefinedIn(g, kind) # {}
           /\ DefinedIn(f, kind) \ DefinedIn(g, kind) # {}

\* C13: after a multi-file parse the root-elements list is exactly the
\* element declarations of the entry file, in document order, and holds no
\* element of another file.
C13_RootElementsOfEntryFile ==
    pc = "parsed" =>
        LET declared == definitions[MainFile].elements
        IN  /\ Len(parser.elements) = Len(declared)
            /\ \A i \in 1..Len(declared) :
                   /\ parser.elements[i].name = declared[i].name
                   /\ parser.elements[i].file = MainFile

\* a parse of several files in which the entry file declares two elements
\* and the global-elements table holds an element of another file
C13_Witness ==
    /\ pc = "parsed"
    /\ Len(definitions[MainFile].elements) > 1
    /\ \E n \in DOMAIN parser.global_elements :
           parser.global_elements[n].file # MainFile

----------------------------------------------------------------------------
(* Properties of the extraction of complex types.                          *)

\* the base a complex type definition declares, and its derivation kind
DeclaredBase(node) == IF node.wrapper = "none" THEN NoType ELSE node.base
DeclaredKind(node) == IF node.wrapper = "none" THEN "none" ELSE node.derivation

\* C14: the complex type extracted from a definition with a complexContent
\* or simpleContent wrapper holding an extension or a restriction carries
\* the declared base and the matching derivation kind; one extracted from a
\* definition without wrapper has no base and neither kind.
C14_DerivationCaptured ==
    pc = "parsed" =>
        \A f \in LoadedFiles :
            \A i \in 1..Len(definitions[f].complex_types) :
                LET node == definitions[f].complex_types[i]
                    ct == structure.complex_types[node.name]
                IN  ct.file = f =>
                        /\ ct.base_type = DeclaredBase(node)
                        /\ ct.is_extension = (DeclaredKind(node) = "extension")
                        /\ ct.is_restriction = (DeclaredKind(node) = "restriction")

----------------------------------------------------------------------------
(* Properties of the dependency calculation.                               *)

\* the elements of a tree, and the types referenced in it
RECURSIVE TreeElements(_)
TreeElements(element) ==
    {element} \cup UNION {TreeElements(element.children[i]) :
                             i \in 1..Len(element.children)}

TypesBelow(element) == {e.type : e \in TreeElements(element)} \ {NoType}

RootTreeElements ==
    UNION {TreeElements(parser.elements[i]) : i \in 1..Len(parser.elements)}

\* C15: after dependency calculation every element of the root-element
\* trees that has a type (and whose name no other element of the trees
\* bears) has an entry under its name, and the entry is the set of the types
\* referenced by the element and by all its descendants.
C15_TransitiveDependencies ==
    pc = "parsed" =>
        \A e \in RootTreeElements :
            (/\ e.type # NoType
             /\ \A x \in RootTreeElements : x.name = e.name => x = e) =>
                /\ ElementKey(e.name) \in DOMAIN parser.dependencies
                /\ parser.dependencies[ElementKey(e.name)] = TypesBelow(e)

----------------------------------------------------------------------------
(* Properties of the dependency edges of the analyzer.                     *)

\* the files whose components the parse of file f merges
LoadedFor(f) == Range(LoadOrder(<<f>>, 1))

\* the names of the types a file defines
TypeNames(f) ==
    {definitions[f].complex_types[i].name :
         i \in 1..Len(definitions[f].complex_types)}
        \cup {definitions[f].simple_types[i].name :
                  i \in 1..Len(definitions[f].simple_types)}

\* a reference made in file f resolves: the namespace its prefix is bound to
\* is the target namespace of a loaded file that defines the local name
Resolves(f, type) ==
    \E g \in LoadedFor(f) :
        /\ definitions[g].target_namespace = NamespaceOf(f, type.prefix)
        /\ type.local \in TypeNames(g)

\* an edge from a component of an analysed file is recorded
Tagged(path, component, source_type) ==
    \E i \in 1..Len(component_dependencies) :
        /\ component_dependencies[i].source_file = FileName(path)
        /\ component_dependencies[i].source_component = component
        /\ component_dependencies[i].source_type = source_type

\* C16: the edge from an element to its type, and from a simple type to its
\* base, is recorded as crossing schemas exactly when the namespace the
\* reference resolves in differs from the namespace of the file that
\* declares the element or type.
C16_CrossSchemaTag ==
    analyzer_pc = "analysed" =>
        \A k \in 1..Len(xsd_files) :
            LET path == xsd_files[k]
                f == path.file
            IN  /\ \A i \in 1..Len(definitions[f].elements) :
                       LET e == definitions[f].elements[i]
                       IN  (IsPrefixed(e.type) /\ Resolves(f, e.type)) =>
                               (Tagged(path, e.name, "element") <=>
                                    NamespaceOf(f, e.type.prefix)
                                        # definitions[f].target_namespace)
                /\ \A i \in 1..Len(definitions[f].simple_types) :
                       LET t == definitions[f].simple_types[i]
                       IN  (IsPrefixed(t.base) /\ Resolves(f, t.base)) =>
                               (Tagged(path, t.name, "simpleType") <=>
                                    NamespaceOf(f, t.base.prefix)
                                        # definitions[f].target_namespace)

----------------------------------------------------------------------------
(* Properties of the selective parser.                                     *)

ComponentTypes == {"element", "complex_type", "simple_type"}

\* the declarations of one kind in a file
DeclaredOfType(f, component_type) ==
    CASE component_type = "element" -> definitions[f].elements
      [] component_type = "complex_type" -> definitions[f].complex_types
      [] component_type = "simple_type" -> definitions[f].simple_types

\* the names of one kind that the schema rooted at file f declares
NamesIn(f, component_type) ==
    UNION {{DeclaredOfType(g, component_type)[i].name :
                i \in 1..Len(DeclaredOfType(g, component_type))} :
           g \in LoadedFor(f)}

NamedBy(criteria, component_type) ==
    CASE component_type = "element" -> Range(criteria.elements)
      [] component_type = "complex_type" -> Range(criteria.complex_types)
      [] component_type = "simple_type" -> Range(criteria.simple_types)

CoversNamespace(criteria) ==
    \E ns \in Range(criteria.namespaces) :
        ns = Wildcard \/ ns = definitions[criteria.file_path].target_namespace

\* criterion k selects the component of that kind and name
SelectedBy(k, component_type, n) ==
    LET criteria == selection_criteria[k]
    IN  /\ criteria.file_path \in Files
        /\ n \in NamesIn(criteria.file_path, component_type)
        /\ n \in NamedBy(criteria, component_type) \/ CoversNamespace(criteria)

SelectedNames(component_type) ==
    {n \in 1..LevelName(MaxDepth) :
        \E k \in 1..Len(selection_criteria) : SelectedBy(k, component_type, n)}

CombinedTable(component_type) ==
    CASE component_type = "element" -> combined.global_elements
      [] component_type = "complex_type" -> combined.complex_types
      [] component_type = "simple_type" -> combined.simple_types

CombinedCount(component_type) ==
    CASE component_type = "element" ->
             combined.metadata.statistics.total_elements
      [] component_type = "complex_type" ->
             combined.metadata.statistics.total_complex_types
      [] component_type = "simple_type" ->
             combined.metadata.statistics.total_simple_types

\* C17: after parse_selections no two selected components share a kind and
\* a name, the tables of the combined result hold exactly the selected
\* names, and each count of the metadata is the number of distinct selected
\* names of its kind.
C17_StoredOnce ==
    select_pc = "done" =>
        /\ \A i, j \in 1..Len(selected_components) :
               selected_components[i].key = selected_components[j].key => i = j
        /\ \A ct \in ComponentTypes :
               /\ DOMAIN CombinedTable(ct) = SelectedNames(ct)
               /\ CombinedCount(ct) = Cardinality(SelectedNames(ct))

\* a complex type named by one criterion and covered by the namespace of a
\* later one, or named from both files, is in the result
C17_Witness ==
    /\ select_pc = "done"
    /\ Len(selection_criteria) = 2
    /\ \E n \in DOMAIN combined.complex_types :
           /\ SelectedBy(1, "complex_type", n)
           /\ SelectedBy(2, "complex_type", n)
           /\ n \in Range(selection_criteria[1].complex_types)
           /\ \/ CoversNamespace(selection_criteria[2])
              \/ selection_criteria[2].file_path
                     # selection_criteria[1].file_path
    /\ combined.metadata.statistics.total_complex_types >= 1

\* the local names of the types a selected component refers to: the type of
\* an element, the base of a type, the types of the elements of a type
ReferencedTypes(component) ==
    LET data == component.component_data
    IN  CASE component.component_type = "element" ->
                 {e.type.local : e \in TreeElements(data)}
          [] component.component_type = "complex_type" ->
                 {data.base_type.local}
                     \cup {e.type.local :
                              e \in UNION {TreeElements(data.elements[i]) :
                                               i \in 1..Len(data.elements)}}
          [] component.component_type = "simple_type" ->
                 {data.base_type.local}

\* C18: with include_dependencies set on the selections, every type that a
\* selected component refers to and that the parsed schema of its file
\* defines is in the combined result too.
C18_DependencyClosure ==
    (/\ select_pc = "done"
     /\ \A k \in 1..Len(selection_criteria) :
            selection_criteria[k].include_dependencies) =>
        \A i \in 1..Len(selected_components) :
            LET component == selected_components[i].value
                f == component.source_file
            IN  \A n \in ReferencedTypes(component) :
                    /\ n \in NamesIn(f, "complex_type") =>
                           n \in DOMAIN combined.complex_types
                    /\ n \in NamesIn(f, "simple_type") =>
                           n \in DOMAIN combined.simple_types

\* every criterion selects by namespace only
OnlyByNamespace ==
    \A k \in 1..Len(selection_criteria) :
        /\ selection_criteria[k].elements = <<>>
        /\ selection_criteria[k].complex_types = <<>>
        /\ selection_criteria[k].simple_types = <<>>

\* C19: a component copied by a namespace criterion is declared in the
\* namespace the criterion covers, the namespace of the criterion's file,
\* and is recorded with the namespace it is declared in.
C19_NamespaceOnly ==
    (select_pc = "done" /\ OnlyByNamespace) =>
        \A i \in 1..Len(selected_components) :
            LET component == selected_components[i].value
                declared ==
                    definitions[component.component_data.file].target_namespace
            IN  /\ declared = definitions[component.source_file].target_namespace
                /\ component.namespace = declared

----------------------------------------------------------------------------
(* Properties of the resolution of relative locations.                     *)

\* file f declares a reference whose location is the shared bare name
DeclaresSibling(f) ==
    \E i \in 1..Len(schema_files[f]) :
        schema_files[f][i].schema_location = LocalLocation(SiblingName)

\* the file of that name in the directory of file f
SiblingOf(f) == IF f \in SubDirFiles THEN 4 ELSE 3

----------------------------------------------------------------------------
(* Properties of the extraction of simple types.                           *)

\* the simpleType element of the root file and the entry extracted from it
RootSimpleType == definitions[MainFile].simple_types[1]
RootSimpleTypeEntry == parser.simple_types[RootSimpleType.name]

ChildrenOfTag(tag) ==
    SelectSeq(RootSimpleType.children, LAMBDA c : c.tag = tag)

\* C22: the base type of an extracted simple type is the base attribute of
\* its restriction, and its enumeration list holds the value attribute of
\* every enumeration child of the restriction, one entry per child, in
\* declaration order.
C22_EnumerationsInOrder ==
    pc = "parsed" =>
        /\ RootSimpleTypeEntry.base_type = RootSimpleType.base
        /\ RootSimpleTypeEntry.enumerations =
               [i \in 1..Len(ChildrenOfTag("enumeration")) |->
                   ChildrenOfTag("enumeration")[i].value]

\* C23: the facet map of an extracted simple type holds exactly the facets
\* that the restriction declares, each with its value string.
C23_FacetMap ==
    pc = "parsed" =>
        /\ DOMAIN RootSimpleTypeEntry.restrictions =
               {t \in FacetTags \ {"enumeration"} : ChildrenOfTag(t) # <<>>}
        /\ \A t \in DOMAIN RootSimpleTypeEntry.restrictions :
               \E i \in 1..Len(ChildrenOfTag(t)) :
                   RootSimpleTypeEntry.restrictions[t] = ChildrenOfTag(t)[i].value


----------------------------------------------------------------------------
(* Attribute references and the tables of global attributes and groups.    *)

\* the complex type of the root file, as declared and as extracted
RootComplexType == definitions[MainFile].complex_types[1]
RootComplexTypeEntry == parser.complex_types[RootComplexType.name]

\* the top-level attribute declaration of file f that a reference names
IsDeclaredGlobal(f, ref) ==
    \E i \in 1..Len(definitions[f].attributes) :
        definitions[f].attributes[i].name = ref.local

GlobalDeclaration(f, ref) ==
    LET decls == definitions[f].attributes
    IN  decls[CHOOSE i \in 1..Len(decls) : decls[i].name = ref.local]

\* the fields of the global declaration, use replaced by the reference's own
CopyWithUse(f, attr) ==
    [DeclaredAttribute(GlobalDeclaration(f, attr.ref)) EXCEPT
        !.use = IF attr.use # NoUse THEN attr.use ELSE @]

\* the key (name, ref, type) of an attribute element, and whether the i-th
\* attribute element of a list is the first of its key
AttributeKey(attr) == <<attr.name, attr.ref, attr.type>>

IsFirstOfKey(attrs, i) ==
    \A j \in 1..(i - 1) : AttributeKey(attrs[j]) # AttributeKey(attrs[i])

\* C24: in multi-file parsing, every reference of the root file's complex
\* type to a global attribute declared in that file (the first reference of
\* each (name, ref, type) key) is extracted as a copy
\* of the global declaration (name, type, default, fixed), its use replaced
\* by the reference's own use when the reference gives one.
C24_ReferenceCopiesGlobal ==
    (pc = "parsed" /\ RootComplexType.name \in DOMAIN parser.complex_types) =>
        \A i \in 1..Len(RootComplexType.attributes) :
            LET attr == RootComplexType.attributes[i]
            IN  (/\ attr.name = NoName
                 /\ IsDeclaredGlobal(MainFile, attr.ref)
                 /\ IsFirstOfKey(RootComplexType.attributes, i)) =>
                    \E j \in 1..Len(RootComplexTypeEntry.attributes) :
                        RootComplexTypeEntry.attributes[j] =
                            CopyWithUse(MainFile, attr)

\* C25: when a multi-file parse has extracted the complex types, the tables
\* of global attributes and of attribute groups hold every global attribute
\* and every attribute group of each parsed file.
C25_TablesFilledBeforeTypes ==
    pc = "parsed" =>
        \A k \in {i \in 1..Len(all_roots) : all_roots[i].root # NoRoot} :
            LET ds == definitions[all_roots[k].root.file]
            IN  /\ \A i \in 1..Len(ds.attributes) :
                       ds.attributes[i].name \in DOMAIN parser.global_attributes
                /\ \A i \in 1..Len(ds.attribute_groups) :
                       ds.attribute_groups[i].name
                           \in DOMAIN parser.attribute_groups

----------------------------------------------------------------------------
(* The element list and the attribute list of a complex type.              *)

SingleParsed == pc \in {"parsed", "reparsed"}

\* the elements declared in a content model, nested containers included
RECURSIVE DeclaredElements(_)
DeclaredElements(items) ==
    IF items = <<>> THEN <<>>
    ELSE (IF IsContainer(Head(items)) THEN DeclaredElements(Head(items).items)
          ELSE <<Head(items)>>) \o DeclaredElements(Tail(items))

\* C26: every element declared in the content of the root file's complex
\* type, those of a choice nested in its sequence included, appears exactly
\* once in the extracted type's element list, and no entry of that list is
\* a container.
C26_NestedContainersWalked ==
    SingleParsed =>
        LET declared == DeclaredElements(RootComplexType.elements)
            got == RootComplexTypeEntry.elements
        IN  /\ \A i \in 1..Len(declared) :
                   Cardinality({j \in 1..Len(got) :
                                   got[j].name = declared[i].name}) = 1
            /\ \A j \in 1..Len(got) : ~IsContainer(got[j])

\* the direct attribute keys of a type and the attributes of the groups it
\* references
DirectKeys(attrs) == {AttributeKey(attrs[i]) : i \in 1..Len(attrs)}

DeclaredGroup(f, ref) ==
    LET gs == definitions[f].attribute_groups
    IN  IF \E i \in 1..Len(gs) : gs[i].name = ref.local
        THEN gs[CHOOSE i \in 1..Len(gs) : gs[i].name = ref.local].attributes
        ELSE <<>>

\* the attributes of the groups that the first i references name, a group
\* counted once (by its name) and once for each spelling of the reference
RECURSIVE GroupTotalByName(_, _, _)
GroupTotalByName(f, refs, i) ==
    IF i = 0 THEN 0
    ELSE GroupTotalByName(f, refs, i - 1)
             + (IF \A j \in 1..(i - 1) : refs[j].local # refs[i].local
                THEN Len(DeclaredGroup(f, refs[i])) ELSE 0)

RECURSIVE GroupTotalByRef(_, _, _)
GroupTotalByRef(f, refs, i) ==
    IF i = 0 THEN 0
    ELSE GroupTotalByRef(f, refs, i - 1)
             + (IF \A j \in 1..(i - 1) : refs[j] # refs[i]
                THEN Len(DeclaredGroup(f, refs[i])) ELSE 0)

\* C27 as stated: the attribute list of the root file's complex type has one
\* entry for each distinct (name, ref, type) key of its attribute elements
\* and the attributes of each referenced attribute group once.
C27_GroupsOnce ==
    SingleParsed =>
        Len(RootComplexTypeEntry.attributes) =
            Cardinality(DirectKeys(RootComplexType.attributes))
                + GroupTotalByName(MainFile, RootComplexType.groups,
                                   Len(RootComplexType.groups))

\* C27 amended: the attribute list of the root file's complex type has one
\* entry for each distinct (name, ref, type) key of its attribute elements
\* and the attributes of the referenced group once for each distinct value
\* of the ref attribute; the scan under the second prefix adds nothing.
C27_NoDoubleCount ==
    SingleParsed =>
        Len(RootComplexTypeEntry.attributes) =
            Cardinality(DirectKeys(RootComplexType.attributes))
                + GroupTotalByRef(MainFile, RootComplexType.groups,
                                  Len(RootComplexType.groups))

\* a parsed type with two attribute elements of one key and two references
\* to one group, listed once each
C27_Witness ==
    /\ SingleParsed
    /\ Cardinality(DirectKeys(RootComplexType.attributes))
           < Len(RootComplexType.attributes)
    /\ RootComplexType.groups
           = <<TypeRef("tns", GroupName), TypeRef("tns", GroupName)>>
    /\ Len(RootComplexTypeEntry.attributes)
           = Cardinality(DirectKeys(RootComplexType.attributes)) + 2

----------------------------------------------------------------------------
(* A second call of parse, and the attribute list of an element.           *)

\* C28: a second call of parse() on the same XSDParser returns the
\* structure that the first call returned.
C28_ReparseSameStructure ==
    [][(pc = "parsed" /\ pc' = "reparsed") => structure' = structure]_vars

\* the root element of the root file, as declared and as extracted
RootDeclaration == definitions[MainFile].elements[1]
RootEntry == parser.elements[1]

\* the name under which an attribute element is listed
ListedName(attr) == IF attr.name # NoName THEN attr.name ELSE attr.ref.local

\* the number of attributes declared for the elements of a list and for
\* their nested child elements, each for its own element
RECURSIVE DeclaredCount(_)
DeclaredCount(items) ==
    IF items = <<>> THEN 0
    ELSE (IF IsContainer(Head(items)) THEN DeclaredCount(Head(items).items)
          ELSE Len(Head(items).attributes)
                   + DeclaredCount(Head(items).children))
             + DeclaredCount(Tail(items))

\* C29: after one parse, each attribute declared in the inline type of the
\* root element is listed exactly once in the element's attribute list, no
\* attribute of its child element is listed there, and total_attributes is
\* the number of attributes declared for the extracted elements (those of
\* the complex types, the global elements and the root elements).
C29_ElementAttributesOnce ==
    pc = "parsed" =>
        LET own == RootDeclaration.attributes
            inner == AttributesBelow(RootDeclaration.children)
            got == RootEntry.attributes
        IN  /\ \A i \in 1..Len(own) :
                   Cardinality({j \in 1..Len(got) :
                                   got[j].name = ListedName(own[i])}) = 1
            /\ \A i \in 1..Len(inner), j \in 1..Len(got) :
                   got[j].name # ListedName(inner[i])
            /\ parser.stats.total_attributes =
                   DeclaredCount(RootComplexType.elements)
                       + 2 * DeclaredCount(definitions[MainFile].elements)

----------------------------------------------------------------------------
(* Two criteria that select the same component.                            *)

\* the entry stored under a key
EntryOf(components, key) ==
    components[CHOOSE i \in 1..Len(components) : components[i].key = key].value

\* the criterion names a component of that kind that its file holds
FoundByName(criteria, component_type, n) ==
    /\ criteria.file_path \in Files
    /\ n \in NamedBy(criteria, component_type)
    /\ n \in NamesIn(criteria.file_path, component_type)

\* C30: a step of _parse_file_selection removes no key; an entry stored by
\* an earlier criterion is replaced by this criterion's (its source file
\* and namespace) when the criterion selects the component by name, and is
\* left as it was when the criterion selects it by namespace or wildcard
\* only, or not at all.
C30_OverwriteByNameOnly ==
    [][criteria_idx' = criteria_idx + 1 =>
          \A i \in 1..Len(selected_components) :
              LET key == selected_components[i].key
                  criteria == selection_criteria[criteria_idx]
              IN  /\ HasKey(selected_components', key)
                  /\ IF FoundByName(criteria, key.component_type, key.name)
                     THEN LET entry == EntryOf(selected_components', key)
                          IN  /\ entry.source_file = criteria.file_path
                              /\ entry.namespace =
                                     definitions[criteria.file_path]
                                         .target_namespace
                     ELSE EntryOf(selected_components', key)
                              = selected_components[i].value]_vars

\* a complex type selected by name from file 1 and then by name from file 2
\* has the entry of file 2; one selected by name from file 2 and then
\* covered by the wildcard of a criterion on file 1 keeps the entry of
\* file 2
C30_Witness ==
    /\ criteria_idx = 3
    /\ LET first == selection_criteria[1]
           second == selection_criteria[2]
           key == ComponentKey("complex_type", SharedName)
       IN  /\ HasKey(selected_components, key)
           /\ EntryOf(selected_components, key).source_file = 2
           /\ \/ /\ first.file_path = 1
                 /\ first.complex_types = <<SharedName>>
                 /\ second.file_path = 2
                 /\ second.complex_types = <<SharedName>>
              \/ /\ first.file_path = 2
                 /\ first.complex_types = <<SharedName>>
                 /\ second.file_path = 1
                 /\ second.namespaces = <<Wildcard>>
====
